---- MODULE Spec2Model ----
(***************************************************************************)
(* Swap execution core of SovereignClaw / ClawKalash:                      *)
(*   - the quote validators (scripts/swap.ts),                             *)
(*   - the retry wrapper and the submit client (Bungee API client),        *)
(*   - one run of executeSwap over both flows, down to status polling.     *)
(*                                                                         *)
(* Text is modelled as sequences of one-character strings, so that         *)
(* BigInt() and toLowerCase() are real conversions.  An optional value is  *)
(* a sequence of length 0 (absent: undefined / null) or 1 (present).       *)
(***************************************************************************)
EXTENDS Integers, Sequences, FiniteSets, TLC

\* ------------------------------------------------------------------------
\* Bounds of the model
\* ------------------------------------------------------------------------

\* longest decimal string drawn for an amount
MaxDigits == 2

\* ------------------------------------------------------------------------
\* Text, optional values
\* ------------------------------------------------------------------------

None == << >>

Some(x) == << x >>

IsSome(o) == Len(o) = 1

\* JavaScript truthiness of an optional number: undefined and 0 are falsy
TruthyNum(o) == IsSome(o) /\ o[1] # 0

LowerChar(c) ==
  CASE c = "A" -> "a" [] c = "B" -> "b" [] c = "C" -> "c" [] c = "D" -> "d"
    [] c = "E" -> "e" [] c = "F" -> "f" [] c = "X" -> "x" [] OTHER -> c

UpperChar(c) ==
  CASE c = "a" -> "A" [] c = "b" -> "B" [] c = "c" -> "C" [] c = "d" -> "D"
    [] c = "e" -> "E" [] c = "f" -> "F" [] c = "x" -> "X" [] OTHER -> c

\* String.prototype.toLowerCase
toLowerCase(s) == [i \in DOMAIN s |-> LowerChar(s[i])]

toUpperCase(s) == [i \in DOMAIN s |-> UpperChar(s[i])]

Digits == {"0", "1"}

DigitVal(c) == IF c = "1" THEN 1 ELSE 0

\* BigInt(<decimal string>): the integer the digits denote; leading zeros
\* are accepted and dropped ("01" -> 1n)
RECURSIVE BigInt(_)
BigInt(s) ==
  IF Len(s) = 0 THEN 0
  ELSE 10 * BigInt(SubSeq(s, 1, Len(s) - 1)) + DigitVal(s[Len(s)])

\* the decimal strings of 1..n digits
DigitStrings(n) == UNION {[1..k -> Digits] : k \in 1..n}

AmountStrings == DigitStrings(MaxDigits)

\* ------------------------------------------------------------------------
\* Addresses
\* ------------------------------------------------------------------------

\* "0x" followed by 40 hex digits
AddrLen == 42

\* '0x000000000022D473030F116dDEE9F6B43aC78BA3'
PERMIT2_ADDRESS ==
  << "0","x","0","0","0","0","0","0","0","0","0","0","2","2","D","4","7","3",
     "0","3","0","F","1","1","6","d","D","E","E","9","F","6","B","4","3","a",
     "C","7","8","B","A","3" >>

\* '0x0000000000000000000000000000000000000000'
ZERO_ADDRESS == [i \in 1..AddrLen |-> IF i = 2 THEN "x" ELSE "0"]

\* '0xEeeeeEeeeEeEeeEeEeEeeEEEeeeeEeeeeeeeEEeE', the native-token address
NATIVE_TOKEN_ADDRESS ==
  << "0","x","E","e","e","e","e","E","e","e","e","E","e","E","e","e","E","e",
     "E","e","E","e","e","E","E","E","e","e","e","e","E","e","e","e","e","e",
     "e","e","E","E","e","E" >>

\* '0x833589fCD6eDb6E08f4c7C32D4f71b54bdA02913', an ERC-20 token (USDC on Base)
USDC_ADDRESS ==
  << "0","x","8","3","3","5","8","9","f","C","D","6","e","D","b","6","E","0",
     "8","f","4","c","7","C","3","2","D","4","f","7","1","b","5","4","b","d",
     "A","0","2","9","1","3" >>

\* the addresses a payload is drawn from: the canonical Permit2 address in
\* three letter cases, a token in two, the native sentinel, the zero address
Addresses ==
  { PERMIT2_ADDRESS, toLowerCase(PERMIT2_ADDRESS), toUpperCase(PERMIT2_ADDRESS),
    USDC_ADDRESS, toLowerCase(USDC_ADDRESS), ZERO_ADDRESS }

ChainIds == {1, 8453}

\* what txData.chainId may carry: nothing, 0, or a chain id
PayloadChainIds == {None, Some(0)} \cup {Some(c) : c \in ChainIds}

\* ------------------------------------------------------------------------
\* Validation (pure)
\* ------------------------------------------------------------------------

validateNativeTxData_tolerant(txData, expectedAmount, expectedChainId) ==
  IF BigInt(txData.value) \div 2 # BigInt(expectedAmount) \div 2
    THEN "txData.value does not match expected input amount"
  ELSE IF txData.to = ZERO_ADDRESS
    THEN "txData.to is the zero address"
  ELSE IF TruthyNum(txData.chainId) /\ txData.chainId[1] # expectedChainId
    THEN "txData.chainId does not match origin chain"
  ELSE "ok"

validateNativeTxData_nozero(txData, expectedAmount, expectedChainId) ==
  IF BigInt(txData.value) # BigInt(expectedAmount)
    THEN "txData.value does not match expected input amount"
  ELSE IF TruthyNum(txData.chainId) /\ txData.chainId[1] # expectedChainId
    THEN "txData.chainId does not match origin chain"
  ELSE "ok"

\* the result is "ok" (returns) or the message of the Error thrown
validateNativeTxData(txData, expectedAmount, expectedChainId) ==
  IF BigInt(txData.value) # BigInt(expectedAmount)
    THEN "txData.value does not match expected input amount"
  ELSE IF txData.to = ZERO_ADDRESS
    THEN "txData.to is the zero address"
  ELSE IF TruthyNum(txData.chainId) /\ txData.chainId[1] # expectedChainId
    THEN "txData.chainId does not match origin chain"
  ELSE "ok"

validatePermit2SignData_casesensitive(signTypedData, expectedToken, expectedAmount) ==
  LET domain == signTypedData.domain
      message == signTypedData.values
      permitted == message.permitted
  IN IF domain.verifyingContract # PERMIT2_ADDRESS
       THEN "Permit2 verifyingContract mismatch"
     ELSE IF IsSome(permitted) /\ permitted[1].amount # expectedAmount
       THEN "Permit2 amount mismatch"
     ELSE IF IsSome(permitted) /\ toLowerCase(permitted[1].token) # toLowerCase(expectedToken)
       THEN "Permit2 token mismatch"
     ELSE "ok"

validatePermit2SignData_amountonly(signTypedData, expectedToken, expectedAmount) ==
  LET domain == signTypedData.domain
      message == signTypedData.values
      permitted == message.permitted
  IN IF toLowerCase(domain.verifyingContract) # toLowerCase(PERMIT2_ADDRESS)
       THEN "Permit2 verifyingContract mismatch"
     ELSE IF IsSome(permitted) /\ permitted[1].amount # expectedAmount
       THEN "Permit2 amount mismatch"
     ELSE "ok"

\* the result is "ok" (returns) or the message of the Error thrown
validatePermit2SignData(signTypedData, expectedToken, expectedAmount) ==
  LET domain == signTypedData.domain
      message == signTypedData.values
      permitted == message.permitted
  IN IF toLowerCase(domain.verifyingContract) # toLowerCase(PERMIT2_ADDRESS)
       THEN "Permit2 verifyingContract mismatch"
     ELSE IF IsSome(permitted) /\ permitted[1].amount # expectedAmount
       THEN "Permit2 amount mismatch"
     ELSE IF IsSome(permitted) /\ toLowerCase(permitted[1].token) # toLowerCase(expectedToken)
       THEN "Permit2 token mismatch"
     ELSE "ok"

\* ------------------------------------------------------------------------
\* Retry wrapper: withRetry(fn, attempts = 3, delayMs = 1000)
\* ------------------------------------------------------------------------

DefaultAttempts == 3

DefaultDelayMs == 1000

RateLimitFloorMs == 3000

\* How one invocation of the wrapped call can throw:
\*   "429"         safeFetch: HTTP 429            '429 Too Many Requests'
\*   "contentType" safeFetch: non-JSON content    'Expected JSON but got ...'
\*   "invalidJson" response.json(): bad body      '... is not valid JSON'
\*   "network"     fetch(): connection failure    'fetch failed'
\*   "rejected"    the remote answered success:false (or left the result out)
FailureKinds == {"429", "contentType", "invalidJson", "network", "rejected"}

\* the subset the spec calls transient (HTTP 429, non-JSON body, connection failure)
TransientKinds == {"429", "contentType", "invalidJson", "network"}

\* err.message.includes('429') || includes('<!doctype') || includes('is not valid JSON')
isRateLimit(kind) == kind \in {"429", "invalidJson"}

Max(a, b) == IF a >= b THEN a ELSE b

NoError == [kind |-> "", call |-> 0]

\* no activation of withRetry
RetryIdle ==
  [pc |-> "idle", attempts |-> 0, delayMs |-> 0, i |-> 0, calls |-> 0,
   wait |-> 0, value |-> None, err |-> NoError]

\* entry of withRetry: `for (let i = 0; i < attempts; i++)`; with no iteration
\* the function falls through to `throw new Error('Unreachable')`
withRetry_enter(attempts, delayMs) ==
  [pc |-> IF 0 < attempts THEN "call" ELSE "thrown",
   attempts |-> attempts, delayMs |-> delayMs, i |-> 0, calls |-> 0,
   wait |-> 0, value |-> None,
   err |-> IF 0 < attempts THEN NoError ELSE [kind |-> "Unreachable", call |-> 0]]

withRetry_call_offbyone(r, outcome) ==
  IF outcome.ok
    THEN [r EXCEPT !.pc = "returned", !.calls = r.calls + 1, !.value = Some(outcome.val)]
  ELSE IF r.i = r.attempts
    THEN [r EXCEPT !.pc = "thrown", !.calls = r.calls + 1,
                   !.err = [kind |-> outcome.kind, call |-> r.calls + 1]]
  ELSE [r EXCEPT !.pc = "sleep", !.calls = r.calls + 1,
                 !.wait = IF isRateLimit(outcome.kind)
                            THEN Max(r.delayMs * (r.i + 1), RateLimitFloorMs) * (r.i + 1)
                            ELSE r.delayMs * (r.i + 1)]

\* one pass through the try block: `return await fn()`, or the catch clause
\* (rethrow on the last iteration, otherwise compute the wait and sleep)
withRetry_call(r, outcome) ==
  IF outcome.ok
    THEN [r EXCEPT !.pc = "returned", !.calls = r.calls + 1, !.value = Some(outcome.val)]
  ELSE IF r.i = r.attempts - 1
    THEN [r EXCEPT !.pc = "thrown", !.calls = r.calls + 1,
                   !.err = [kind |-> outcome.kind, call |-> r.calls + 1]]
  ELSE [r EXCEPT !.pc = "sleep", !.calls = r.calls + 1,
                 !.wait = IF isRateLimit(outcome.kind)
                            THEN Max(r.delayMs * (r.i + 1), RateLimitFloorMs) * (r.i + 1)
                            ELSE r.delayMs * (r.i + 1)]

\* the sleep is over: i++ and the loop test
withRetry_wake(r) ==
  IF r.i + 1 < r.attempts
    THEN [r EXCEPT !.pc = "call", !.i = r.i + 1]
  ELSE [r EXCEPT !.pc = "thrown", !.i = r.i + 1,
                 !.err = [kind |-> "Unreachable", call |-> 0]]

\* ------------------------------------------------------------------------
\* State
\* ------------------------------------------------------------------------

VARIABLES
  vfn,    \* function under test: a validator ("native", "permit2") or
          \* "getQuote" ("none": not under test)
  vargs,  \* its arguments
  vres,   \* what the call produced, once it has ("pending" / None before)
  retry,  \* the activation of withRetry
  fnlog,  \* what each invocation of the wrapped call did, in order
  quote,        \* the QuoteResult handed to executeSwap
  pc,           \* where the run of executeSwap stands
  err,          \* the message of the Error the run ended with ("" if none)
  validated,    \* the quote validator of the flow has returned normally
  ops,          \* how many times each remote read / timer was issued
  sent,         \* the transactions handed to the wallet client, in order
  signed,       \* the typed-data payloads signed, in order
  posted,       \* the bodies of the POST /submit requests issued, in order
  gas,          \* locals gasEstimate and gasPrice of the native flow
  requestHash,  \* the settlement id the run polls and returns
  pollI,        \* loop index i of pollStatus
  result,       \* the status object pollStatus returned
  errRef,       \* the tracking reference the Error message carries, if any
  lastStatus,   \* local status of pollStatus: results[0] of this iteration's response
  allowance,    \* local currentAllowance of handleApproval, once read
  returned,     \* the { requestHash, status } executeSwap returned
  errReason,    \* the reason of a caught failure the Error message quotes, if any
  balance,      \* local balance (native currency of the account), while in use
  submitData,   \* local data of submitPermit2: the body of the latest response
  queryTimes,   \* Date.now() at each call of getStatus made by pollStatus
  searchCache,  \* the Map searchCache: lower-cased query -> { results, ts }
  clock,        \* Date.now(), in ms since the process started
  lookup,       \* the call of cachedSearch in flight, if any
  lookups,      \* the calls of cachedSearch that have settled, in order
  fetches,      \* how many times searchTokens was called
  resolveArgs,  \* the arguments (input, chainId) of a call of resolveToken
  response,     \* data.result of the search response that call receives
  resolvePc,    \* where the call of resolveToken stands
  tokenList,    \* local results: what searchTokens returned
  resolved,     \* the object resolveToken returned, or the message it threw
  warned        \* console.warn was called

valVars == << vfn, vargs, vres >>

retryVars == << retry, fnlog >>

runVars == << quote, pc, err, validated, ops, sent, signed, posted, gas,
              requestHash, pollI, result, errRef, lastStatus, allowance, returned,
              errReason, balance, submitData, queryTimes >>

vars == << vfn, vargs, vres, retry, fnlog, quote, pc, err, validated, ops,
           sent, signed, posted, gas, requestHash, pollI, result,
           errRef, lastStatus, allowance, returned, errReason, balance,
           submitData, queryTimes,
           searchCache, clock, lookup, lookups, fetches,
           resolveArgs, response, resolvePc, tokenList, resolved, warned >>

resolveVars == << resolveArgs, response, resolvePc, tokenList, resolved, warned >>

searchVars == << searchCache, clock, lookup, lookups, fetches >>

ValidateIdle == vfn = "none" /\ vargs = << >> /\ vres = "idle"

RetryHarnessIdle == retry = RetryIdle /\ fnlog = << >>

NoOps ==
  [estimateGas |-> 0, getGasPrice |-> 0, getBalance |-> 0, readAllowance |-> 0,
   simulate |-> 0, receipt |-> 0, statusQuery |-> 0, sleep |-> 0]

NoGas == [estimate |-> 0, price |-> 0]

RunIdle ==
  /\ quote = << >> /\ pc = "idle" /\ err = "" /\ validated = FALSE
  /\ ops = NoOps /\ sent = << >> /\ signed = << >> /\ posted = << >>
  /\ gas = NoGas /\ requestHash = None /\ pollI = 0 /\ result = None
  /\ errRef = None /\ lastStatus = None /\ allowance = None /\ returned = None
  /\ errReason = None /\ balance = None
  /\ submitData = None /\ queryTimes = << >>

\* the queries resolved in one process: two spellings of one symbol, and another
SearchQueries == {<< "F", "X", "D" >>, << "f", "x", "d" >>, << "D", "E", "X" >>}

SearchKeys == {toLowerCase(q) : q \in SearchQueries}

NoLookup == [pc |-> "idle", query |-> << >>, key |-> << >>, at |-> 0, cached |-> None]

\* a fresh process: `new Map()`, nothing in flight
SearchIdle ==
  /\ searchCache = [k \in SearchKeys |-> None]
  /\ clock = 0
  /\ lookup = NoLookup
  /\ lookups = << >>
  /\ fetches = 0

\* no call of resolveToken
ResolveIdle ==
  /\ resolveArgs = << >> /\ response = << >> /\ resolvePc = "idle"
  /\ tokenList = << >> /\ resolved = None /\ warned = FALSE

\* ------------------------------------------------------------------------
\* The validators applied to every payload of the bounded input sets
\* ------------------------------------------------------------------------

NativeArgs ==
  [ txData : [value : AmountStrings, to : Addresses, chainId : PayloadChainIds],
    expectedAmount : AmountStrings,
    expectedChainId : ChainIds ]

Permitted == {None} \cup {Some(p) : p \in [amount : AmountStrings, token : Addresses]}

Permit2Args ==
  [ signTypedData : [domain : [verifyingContract : Addresses],
                     values : [permitted : Permitted]],
    expectedToken : Addresses,
    expectedAmount : AmountStrings ]

InitValidate ==
  /\ vres = "pending"
  /\ \/ vfn = "native" /\ vargs \in NativeArgs
     \/ vfn = "permit2" /\ vargs \in Permit2Args
  /\ RetryHarnessIdle
  /\ RunIdle
  /\ SearchIdle
  /\ ResolveIdle

CallValidateNative ==
  /\ vfn = "native" /\ vres = "pending"
  /\ vres' = validateNativeTxData(vargs.txData, vargs.expectedAmount, vargs.expectedChainId)
  /\ UNCHANGED << vfn, vargs, retryVars, runVars, searchVars, resolveVars >>

CallValidatePermit2 ==
  /\ vfn = "permit2" /\ vres = "pending"
  /\ vres' = validatePermit2SignData(vargs.signTypedData, vargs.expectedToken, vargs.expectedAmount)
  /\ UNCHANGED << vfn, vargs, retryVars, runVars, searchVars, resolveVars >>

NextValidate == CallValidateNative \/ CallValidatePermit2

SpecValidate == InitValidate /\ [][NextValidate]_vars

\* ------------------------------------------------------------------------
\* withRetry around an arbitrary call
\* ------------------------------------------------------------------------

\* largest `attempts` argument drawn
MaxAttemptsArg == 3

\* what one invocation of the wrapped call does: return a value, or throw
CallOutcomes(n) ==
  {[ok |-> TRUE, kind |-> "", val |-> n]}
    \cup {[ok |-> FALSE, kind |-> k, val |-> 0] : k \in FailureKinds}

InitRetry ==
  /\ \E a \in 0..MaxAttemptsArg : retry = withRetry_enter(a, DefaultDelayMs)
  /\ fnlog = << >>
  /\ ValidateIdle
  /\ RunIdle
  /\ SearchIdle
  /\ ResolveIdle

\* the wrapped call is invoked and settles
RetryInvoke ==
  /\ retry.pc = "call"
  /\ \E o \in CallOutcomes(retry.calls + 1) :
       /\ retry' = withRetry_call(retry, o)
       /\ fnlog' = Append(fnlog, o)
  /\ UNCHANGED << valVars, runVars, searchVars, resolveVars >>

\* the timer of the back-off fires
RetryWake ==
  /\ retry.pc = "sleep"
  /\ retry' = withRetry_wake(retry)
  /\ UNCHANGED << fnlog, valVars, runVars, searchVars, resolveVars >>

NextRetry == RetryInvoke \/ RetryWake

SpecRetry == InitRetry /\ [][NextRetry]_vars

\* ------------------------------------------------------------------------
\* One run of executeSwap(privateKeyOrMnemonic, quote)
\* ------------------------------------------------------------------------

\* largest native-currency balance an RPC read returns
MaxBalance == 5

\* largest ERC-20 allowance an RPC read returns
MaxAllowance == 2

\* pollStatus(requestHash, log, maxAttempts = 20)
MaxPollAttempts == 20

GasEstimates == {1, 2}

GasPrices == {1, 2}

\* the messages of the failures an RPC simulation is caught with
RpcReasons == {"execution reverted", "insufficient funds for gas"}

\* isNativeToken(address) of scripts/types.ts
isNativeToken(a) == toLowerCase(a) = toLowerCase(NATIVE_TOKEN_ADDRESS)

\* the input amounts a caller asks a quote for
RunInputAmounts == {<< "1" >>, << "0", "1" >>}

RunTxData ==
  [value : AmountStrings, to : {USDC_ADDRESS, ZERO_ADDRESS}, data : {"0xcalldata"},
   chainId : PayloadChainIds]

RunPermitted ==
  {None} \cup {Some(p) : p \in [amount : AmountStrings,
                                token : {USDC_ADDRESS, toLowerCase(USDC_ADDRESS), PERMIT2_ADDRESS}]}

RunSignTypedData ==
  {None} \cup
  {Some(d) : d \in [domain : [verifyingContract :
                                {PERMIT2_ADDRESS, toLowerCase(PERMIT2_ADDRESS), USDC_ADDRESS}],
                    types : {"types"},
                    values : [permitted : RunPermitted]]}

\* spenderAddress '0' stands for the Permit2 contract
RunApprovalData ==
  {None} \cup
  {Some(a) : a \in [tokenAddress : {USDC_ADDRESS},
                    spenderAddress : {<< "0" >>, PERMIT2_ADDRESS, ZERO_ADDRESS},
                    amount : {<< "1" >>}]}

\* The fields of QuoteResult that executeSwap reads.  getQuote copies
\* inputAmount, inputToken and originChain from the caller's request and takes
\* every other field from the remote response, so these are drawn freely.
\* A quote dispatched to the native flow is never asked for its permit2
\* fields and the other quotes are never asked for the contents of txData:
\* those fields are held at one value.
NativeQuotes ==
  [ quoteId : {"q1"}, requestType : {"rt"},
    userOp : {Some("tx")}, txData : {Some(t) : t \in RunTxData},
    requestHash : {None, Some("0xreq")},
    inputAmount : RunInputAmounts,
    inputToken : {NATIVE_TOKEN_ADDRESS, USDC_ADDRESS},
    originChain : ChainIds,
    approvalData : {None}, signTypedData : {None}, witness : {None} ]

OtherQuotes ==
  { q \in
      [ quoteId : {"q1"}, requestType : {"rt"},
        userOp : {None, Some("tx")},
        txData : {None, Some([value |-> << "1" >>, to |-> USDC_ADDRESS,
                              data |-> "0xcalldata", chainId |-> None])},
        requestHash : {None},
        inputAmount : RunInputAmounts,
        inputToken : {NATIVE_TOKEN_ADDRESS, USDC_ADDRESS},
        originChain : {8453},
        approvalData : RunApprovalData,
        signTypedData : RunSignTypedData,
        witness : {None, Some("witness")} ] :
      ~(q.userOp = Some("tx") /\ IsSome(q.txData)) }

Quotes == NativeQuotes \cup OtherQuotes

InitSwap ==
  /\ quote \in Quotes
  /\ pc = "executeSwap"
  /\ err = "" /\ validated = FALSE
  /\ ops = NoOps /\ sent = << >> /\ signed = << >> /\ posted = << >>
  /\ gas = NoGas /\ requestHash = None /\ pollI = 0 /\ result = None
  /\ errRef = None /\ lastStatus = None /\ allowance = None /\ returned = None
  /\ errReason = None /\ balance = None
  /\ submitData = None /\ queryTimes = << >>
  /\ ValidateIdle
  /\ RetryHarnessIdle
  /\ SearchIdle
  /\ ResolveIdle

\* a throw that leaves executeSwap
Fail(msg) == pc' = "failed" /\ err' = msg /\ errRef' = None /\ errReason' = None

\* a throw from a catch block: `${msg}. Reason: ${reason}`
FailWithReason(msg, reason) ==
  pc' = "failed" /\ err' = msg /\ errRef' = None /\ errReason' = Some(reason)

\* a throw whose message ends in the tracking URL of a settlement id
FailWithRef(msg, ref) == pc' = "failed" /\ err' = msg /\ errRef' = ref /\ errReason' = None

Count(op) == ops' = [ops EXCEPT ![op] = @ + 1]

\* executeSwap: the dispatch on the quote
ExecuteSwap ==
  /\ pc = "executeSwap"
  /\ IF quote.userOp = Some("tx") /\ IsSome(quote.txData)
       THEN pc' = "executeNativeTokenSwap" /\ err' = err /\ errRef' = errRef /\ errReason' = errReason
     ELSE IF isNativeToken(quote.inputToken)
       THEN Fail("Native token swap expected txData but none provided in quote")
     ELSE pc' = "executePermit2Swap" /\ err' = err /\ errRef' = errRef /\ errReason' = errReason
  /\ UNCHANGED << validated, ops, sent, signed, posted, gas, requestHash, pollI, result,
                  quote, lastStatus, allowance, returned, balance, valVars, retryVars, searchVars, resolveVars,
                  submitData, queryTimes >>

NativeEntry_unvalidated ==
  /\ pc = "executeNativeTokenSwap"
  /\ IF ~IsSome(quote.txData)
       THEN Fail("Missing txData for native token swap") /\ validated' = validated
     ELSE IF ~IsSome(quote.requestHash)
       THEN Fail("Missing requestHash for native token swap") /\ validated' = validated
     ELSE pc' = "estimateGas" /\ err' = err /\ errRef' = errRef /\ errReason' = errReason /\ validated' = TRUE
  /\ UNCHANGED << ops, sent, signed, posted, gas, requestHash, pollI, result,
                  quote, lastStatus, allowance, returned, balance, valVars, retryVars, searchVars, resolveVars,
                  submitData, queryTimes >>

NativeEntry_nohashcheck ==
  /\ pc = "executeNativeTokenSwap"
  /\ IF ~IsSome(quote.txData)
       THEN Fail("Missing txData for native token swap") /\ validated' = validated
     ELSE LET v == validateNativeTxData(quote.txData[1], quote.inputAmount, quote.originChain)
          IN IF v # "ok"
               THEN Fail(v) /\ validated' = validated
             ELSE pc' = "estimateGas" /\ err' = err /\ errRef' = errRef /\ errReason' = errReason /\ validated' = TRUE
  /\ UNCHANGED << ops, sent, signed, posted, gas, requestHash, pollI, result,
                  quote, lastStatus, allowance, returned, balance, valVars, retryVars, searchVars, resolveVars,
                  submitData, queryTimes >>

\* executeNativeTokenSwap, up to and including validateNativeTxData
NativeEntry ==
  /\ pc = "executeNativeTokenSwap"
  /\ IF ~IsSome(quote.txData)
       THEN Fail("Missing txData for native token swap") /\ validated' = validated
     ELSE IF ~IsSome(quote.requestHash)
       THEN Fail("Missing requestHash for native token swap") /\ validated' = validated
     ELSE LET v == validateNativeTxData(quote.txData[1], quote.inputAmount, quote.originChain)
          IN IF v # "ok"
               THEN Fail(v) /\ validated' = validated
             ELSE pc' = "estimateGas" /\ err' = err /\ errRef' = errRef /\ errReason' = errReason /\ validated' = TRUE
  /\ UNCHANGED << ops, sent, signed, posted, gas, requestHash, pollI, result,
                  quote, lastStatus, allowance, returned, balance, valVars, retryVars, searchVars, resolveVars,
                  submitData, queryTimes >>

EstimateGas_lenient ==
  /\ pc = "estimateGas"
  /\ Count("estimateGas")
  /\ \/ \E g \in GasEstimates :
          /\ gas' = [gas EXCEPT !.estimate = g]
          /\ pc' = "getGasPrice" /\ err' = err /\ errRef' = errRef /\ errReason' = errReason
     \/ \E reason \in RpcReasons :
          /\ gas' = [gas EXCEPT !.estimate = 1]
          /\ pc' = "getGasPrice" /\ err' = "Transaction would fail"
          /\ errRef' = None /\ errReason' = Some(reason)
  /\ UNCHANGED << validated, sent, signed, posted, requestHash, pollI, result,
                  quote, lastStatus, allowance, returned, balance, valVars, retryVars, searchVars, resolveVars,
                  submitData, queryTimes >>

\* publicClient.estimateGas(txRequest), inside try/catch
EstimateGas ==
  /\ pc = "estimateGas"
  /\ Count("estimateGas")
  /\ \/ \E g \in GasEstimates :
          /\ gas' = [gas EXCEPT !.estimate = g]
          /\ pc' = "getGasPrice" /\ err' = err /\ errRef' = errRef /\ errReason' = errReason
     \/ \E reason \in RpcReasons :
          FailWithReason("Transaction would fail", reason) /\ gas' = gas
  /\ UNCHANGED << validated, sent, signed, posted, requestHash, pollI, result,
                  quote, lastStatus, allowance, returned, balance, valVars, retryVars, searchVars, resolveVars,
                  submitData, queryTimes >>

\* publicClient.getGasPrice()
GetGasPrice ==
  /\ pc = "getGasPrice"
  /\ Count("getGasPrice")
  /\ \/ \E p \in GasPrices :
          /\ gas' = [gas EXCEPT !.price = p]
          /\ pc' = "getBalance" /\ err' = err /\ errRef' = errRef /\ errReason' = errReason
     \/ Fail("rpc error") /\ gas' = gas
  /\ UNCHANGED << validated, sent, signed, posted, requestHash, pollI, result,
                  quote, lastStatus, allowance, returned, balance, valVars, retryVars, searchVars, resolveVars,
                  submitData, queryTimes >>

balanceShort_inclusive(bal, totalNeeded) == bal <= totalNeeded

\* executeNativeTokenSwap: `balance < totalNeeded`
balanceShort(bal, totalNeeded) == bal < totalNeeded

\* publicClient.getBalance and the comparison with value + gas cost
GetBalanceNative ==
  /\ pc = "getBalance"
  /\ Count("getBalance")
  /\ \/ \E bal \in 0..MaxBalance :
          LET gasCost == gas.estimate * gas.price
              totalNeeded == BigInt(quote.txData[1].value) + gasCost
          IN /\ balance' = Some(bal)
             /\ IF balanceShort(bal, totalNeeded)
                  THEN Fail("Insufficient balance")
                ELSE pc' = "sendTransaction" /\ err' = err /\ errRef' = errRef
                     /\ errReason' = errReason
     \/ Fail("rpc error") /\ balance' = balance
  /\ UNCHANGED << validated, sent, signed, posted, gas, requestHash, pollI, result,
                  quote, lastStatus, allowance, returned, valVars, retryVars, searchVars, resolveVars,
                  submitData, queryTimes >>

pollStatus_continue_offbyone(i, maxAttempts) == i <= maxAttempts

\* pollStatus: the loop condition `i < maxAttempts`
pollStatus_continue(i, maxAttempts) == i < maxAttempts

SendTransaction_nowait ==
  /\ pc = "sendTransaction"
  /\ \/ /\ sent' = Append(sent, [kind |-> "transfer",
                                 to |-> quote.txData[1].to,
                                 data |-> quote.txData[1].data,
                                 value |-> BigInt(quote.txData[1].value)])
        /\ requestHash' = quote.requestHash
        /\ pc' = "pollSleep" /\ err' = err /\ errRef' = errRef /\ errReason' = errReason
     \/ Fail("rpc error") /\ sent' = sent /\ requestHash' = requestHash
  /\ UNCHANGED << validated, ops, signed, posted, gas, pollI, result,
                  quote, lastStatus, allowance, returned, balance, valVars, retryVars, searchVars, resolveVars,
                  submitData, queryTimes >>

\* walletClient.sendTransaction({to, data, value})
SendTransaction ==
  /\ pc = "sendTransaction"
  /\ \/ /\ sent' = Append(sent, [kind |-> "transfer",
                                 to |-> quote.txData[1].to,
                                 data |-> quote.txData[1].data,
                                 value |-> BigInt(quote.txData[1].value)])
        /\ pc' = "waitForTransactionReceipt" /\ err' = err /\ errRef' = errRef /\ errReason' = errReason
     \/ Fail("rpc error") /\ sent' = sent
  /\ UNCHANGED << validated, ops, signed, posted, gas, requestHash, pollI, result,
                  quote, lastStatus, allowance, returned, balance, valVars, retryVars, searchVars, resolveVars,
                  submitData, queryTimes >>

WaitForTransactionReceipt_thenpermit2 ==
  /\ pc = "waitForTransactionReceipt"
  /\ Count("receipt")
  /\ \/ /\ gas' = NoGas /\ balance' = None
        /\ pc' = "executePermit2Swap" /\ err' = err /\ errRef' = errRef
        /\ errReason' = errReason
     \/ Fail("rpc error") /\ UNCHANGED << gas, balance >>
  /\ UNCHANGED << validated, sent, signed, posted, result, requestHash, pollI,
                  quote, lastStatus, allowance, returned, valVars, retryVars, searchVars, resolveVars,
                  submitData, queryTimes >>

\* publicClient.waitForTransactionReceipt({hash}), then pollStatus(quote.requestHash)
WaitForTransactionReceipt ==
  /\ pc = "waitForTransactionReceipt"
  /\ Count("receipt")
  /\ \/ /\ requestHash' = quote.requestHash
        /\ pollI' = 0
        /\ gas' = NoGas /\ balance' = None
        /\ IF pollStatus_continue(0, MaxPollAttempts)
             THEN pc' = "pollSleep" /\ err' = err /\ errRef' = errRef /\ errReason' = errReason
           ELSE FailWithRef("Polling timed out", quote.requestHash)
     \/ Fail("rpc error") /\ UNCHANGED << requestHash, pollI, gas, balance >>
  /\ UNCHANGED << validated, sent, signed, posted, result,
                  quote, lastStatus, allowance, returned, valVars, retryVars, searchVars, resolveVars,
                  submitData, queryTimes >>

\* executePermit2Swap: is there approval data with a token address?
Permit2Entry ==
  /\ pc = "executePermit2Swap"
  /\ pc' = IF IsSome(quote.approvalData) THEN "readAllowance" ELSE "getBalancePermit2"
  /\ UNCHANGED << err, errRef, errReason, validated, ops, sent, signed, posted, gas, requestHash, pollI,
                  result, quote, lastStatus, allowance, returned, balance, valVars, retryVars, searchVars, resolveVars,
                  submitData, queryTimes >>

\* handleApproval: the spender the approval is for
ApprovalSpender(approvalData) ==
  IF approvalData.spenderAddress = << "0" >> THEN PERMIT2_ADDRESS
  ELSE approvalData.spenderAddress

allowanceSufficient_strict(currentAllowance, amount) ==
  currentAllowance > BigInt(amount)

\* handleApproval: `BigInt(currentAllowance) >= BigInt(approvalData.amount)`
allowanceSufficient(currentAllowance, amount) ==
  currentAllowance >= BigInt(amount)

\* handleApproval: readContract allowance(owner, spender) and the comparison
ReadAllowance ==
  /\ pc = "readAllowance"
  /\ Count("readAllowance")
  /\ \/ \E currentAllowance \in 0..MaxAllowance :
          /\ allowance' = Some(currentAllowance)
          /\ pc' = IF allowanceSufficient(currentAllowance, quote.approvalData[1].amount)
                     THEN "getBalancePermit2" ELSE "simulateApprove"
          /\ err' = err /\ errRef' = errRef /\ errReason' = errReason
     \/ Fail("rpc error") /\ allowance' = allowance
  /\ UNCHANGED << validated, sent, signed, posted, gas, requestHash, pollI, result,
                  quote, lastStatus, returned, balance, valVars, retryVars, searchVars, resolveVars,
                  submitData, queryTimes >>

SimulateApprove_lenient ==
  /\ pc = "simulateApprove"
  /\ Count("simulate")
  /\ \/ pc' = "writeApprove" /\ err' = err /\ errRef' = errRef /\ errReason' = errReason
     \/ pc' = "writeApprove" /\ err' = "Approval would fail" /\ errRef' = None /\ errReason' = errReason
  /\ UNCHANGED << validated, sent, signed, posted, gas, requestHash, pollI, result,
                  quote, lastStatus, allowance, returned, balance, valVars, retryVars, searchVars, resolveVars,
                  submitData, queryTimes >>

\* handleApproval: publicClient.simulateContract(approve), inside try/catch
SimulateApprove ==
  /\ pc = "simulateApprove"
  /\ Count("simulate")
  /\ \/ pc' = "writeApprove" /\ err' = err /\ errRef' = errRef /\ errReason' = errReason
     \/ \E reason \in RpcReasons : FailWithReason("Approval would fail", reason)
  /\ UNCHANGED << validated, sent, signed, posted, gas, requestHash, pollI, result,
                  quote, lastStatus, allowance, returned, balance, valVars, retryVars, searchVars, resolveVars,
                  submitData, queryTimes >>

WriteApprove_nowait ==
  /\ pc = "writeApprove"
  /\ \/ /\ sent' = Append(sent, [kind |-> "approve",
                                 to |-> quote.approvalData[1].tokenAddress,
                                 data |-> ApprovalSpender(quote.approvalData[1]),
                                 value |-> BigInt(quote.approvalData[1].amount)])
        /\ pc' = "getBalancePermit2" /\ err' = err /\ errRef' = errRef /\ errReason' = errReason
     \/ Fail("rpc error") /\ sent' = sent
  /\ UNCHANGED << validated, ops, signed, posted, gas, requestHash, pollI, result,
                  quote, lastStatus, allowance, returned, balance, valVars, retryVars, searchVars, resolveVars,
                  submitData, queryTimes >>

\* handleApproval: walletClient.writeContract(approveRequest)
WriteApprove ==
  /\ pc = "writeApprove"
  /\ \/ /\ sent' = Append(sent, [kind |-> "approve",
                                 to |-> quote.approvalData[1].tokenAddress,
                                 data |-> ApprovalSpender(quote.approvalData[1]),
                                 value |-> BigInt(quote.approvalData[1].amount)])
        /\ pc' = "waitApprovalReceipt" /\ err' = err /\ errRef' = errRef /\ errReason' = errReason
     \/ Fail("rpc error") /\ sent' = sent
  /\ UNCHANGED << validated, ops, signed, posted, gas, requestHash, pollI, result,
                  quote, lastStatus, allowance, returned, balance, valVars, retryVars, searchVars, resolveVars,
                  submitData, queryTimes >>

\* handleApproval: waitForTransactionReceipt of the approval
WaitApprovalReceipt ==
  /\ pc = "waitApprovalReceipt"
  /\ Count("receipt")
  /\ \/ pc' = "getBalancePermit2" /\ err' = err /\ errRef' = errRef /\ errReason' = errReason
     \/ Fail("rpc error")
  /\ UNCHANGED << validated, sent, signed, posted, gas, requestHash, pollI, result,
                  quote, lastStatus, allowance, returned, balance, valVars, retryVars, searchVars, resolveVars,
                  submitData, queryTimes >>

GetBalancePermit2_nocheck ==
  /\ pc = "getBalancePermit2"
  /\ Count("getBalance")
  /\ \/ \E bal \in 0..MaxBalance :
          /\ balance' = Some(bal)
          /\ pc' = "checkSignData" /\ err' = err /\ errRef' = errRef
          /\ errReason' = errReason
     \/ Fail("rpc error") /\ balance' = balance
  /\ UNCHANGED << validated, sent, signed, posted, gas, requestHash, pollI, result,
                  quote, lastStatus, allowance, returned, valVars, retryVars, searchVars, resolveVars,
                  submitData, queryTimes >>

\* executePermit2Swap: the wallet must hold native currency for gas
GetBalancePermit2 ==
  /\ pc = "getBalancePermit2"
  /\ Count("getBalance")
  /\ \/ \E bal \in 0..MaxBalance :
          /\ balance' = Some(bal)
          /\ IF bal = 0 THEN Fail("Wallet has no ETH for gas fees")
             ELSE pc' = "checkSignData" /\ err' = err /\ errRef' = errRef
                  /\ errReason' = errReason
     \/ Fail("rpc error") /\ balance' = balance
  /\ UNCHANGED << validated, sent, signed, posted, gas, requestHash, pollI, result,
                  quote, lastStatus, allowance, returned, valVars, retryVars, searchVars, resolveVars,
                  submitData, queryTimes >>

\* executePermit2Swap: presence of the signing data, then validatePermit2SignData
CheckSignData ==
  /\ pc = "checkSignData"
  /\ IF ~IsSome(quote.signTypedData) \/ ~IsSome(quote.witness)
       THEN Fail("Missing signTypedData or witness") /\ validated' = validated
     ELSE LET v == validatePermit2SignData(quote.signTypedData[1], quote.inputToken,
                                           quote.inputAmount)
          IN IF v # "ok"
               THEN Fail(v) /\ validated' = validated
             ELSE pc' = "signTypedData" /\ err' = err /\ errRef' = errRef /\ errReason' = errReason /\ validated' = TRUE
  /\ UNCHANGED << ops, sent, signed, posted, gas, requestHash, pollI, result,
                  quote, lastStatus, allowance, returned, balance, valVars, retryVars, searchVars, resolveVars,
                  submitData, queryTimes >>

\* the signature of one account over a typed-data request: a value that is
\* different for different requests
Signature(request) == [signatureOf |-> request]

\* executePermit2Swap: the argument of account.signTypedData
signTypedData_request(q) ==
  [types |-> q.signTypedData[1].types,
   primaryType |-> "PermitWitnessTransferFrom",
   message |-> q.signTypedData[1].values,
   domain |-> q.signTypedData[1].domain]

\* account.signTypedData({types, primaryType, message, domain}) and the
\* signature it returns; the call of submitPermit2 that follows enters
\* withRetry with its defaults
SignTypedData ==
  /\ pc = "signTypedData"
  /\ LET request == signTypedData_request(quote)
     IN signed' = Append(signed, [request |-> request,
                                  signature |-> Signature(request)])
  /\ retry' = withRetry_enter(DefaultAttempts, DefaultDelayMs)
  /\ pc' = "submitPermit2"
  /\ balance' = None
  /\ UNCHANGED << err, errRef, errReason, validated, ops, sent, posted, gas, requestHash,
                  pollI, result, quote, lastStatus, allowance, returned, valVars, fnlog,
                  searchVars, resolveVars,
                  submitData, queryTimes >>

\* the request hashes the settlement service hands out
SubmitHashes == {"0xsubA", "0xsubB"}

\* the bodies POST /submit is answered with: { success, result: { requestHash } }
\* or { success: false, error: { message } }, with any part left out
SubmitData ==
  { d \in [success : BOOLEAN,
           requestHash : {None} \cup {Some(h) : h \in SubmitHashes},
           errorMessage : {None, Some("quote expired")}] :
      (d.success /\ IsSome(d.requestHash)) => d.errorMessage = None }

\* JSON.stringify(data) of a body that has no error message
stringify(d) ==
  IF d.success THEN "{\"success\":true}"
  ELSE IF d.requestHash = None THEN "{\"success\":false}"
  ELSE IF d.requestHash = Some("0xsubA")
    THEN "{\"success\":false,\"result\":{\"requestHash\":\"0xsubA\"}}"
  ELSE "{\"success\":false,\"result\":{\"requestHash\":\"0xsubB\"}}"

\* submitPermit2: what the wrapped call does with the body of the response
submitPermit2_fn(d) ==
  IF ~d.success \/ ~IsSome(d.requestHash)
    THEN [ok |-> FALSE, kind |-> "rejected", val |-> 0,
          message |-> IF IsSome(d.errorMessage) THEN d.errorMessage[1] ELSE stringify(d)]
  ELSE [ok |-> TRUE, kind |-> "", val |-> d.requestHash[1], message |-> ""]

\* what one POST /submit is answered with: a JSON body, or a throw of
\* safeFetch / response.json() before there is a body
SubmitAnswers ==
  {[kind |-> "body", data |-> Some(d)] : d \in SubmitData}
    \cup {[kind |-> k, data |-> None] : k \in FailureKinds \ {"rejected"}}

submitPayload_swapped(q, signature) ==
  [requestType |-> q.quoteId,
   request |-> q.witness[1],
   userSignature |-> signature,
   quoteId |-> q.requestType]

\* executePermit2Swap: the payload handed to submitPermit2
submitPayload(q, signature) ==
  [requestType |-> q.requestType,
   request |-> q.witness[1],
   userSignature |-> signature,
   quoteId |-> q.quoteId]

\* submitPermit2: one invocation of the wrapped call, which issues the POST;
\* on return pollStatus(requestHash) starts, on throw the run fails
SubmitPost ==
  /\ pc = "submitPermit2" /\ retry.pc = "call"
  /\ posted' = Append(posted, submitPayload(quote, signed[Len(signed)].signature))
  /\ \E answer \in SubmitAnswers :
       LET o == IF answer.kind = "body" THEN submitPermit2_fn(answer.data[1])
                ELSE [ok |-> FALSE, kind |-> answer.kind, val |-> 0, message |-> ""]
           r == withRetry_call(retry, o)
       IN /\ submitData' = answer.data
          /\ CASE r.pc = "returned" ->
                 /\ requestHash' = r.value
                 /\ retry' = RetryIdle
                 /\ pollI' = 0
                 /\ IF pollStatus_continue(0, MaxPollAttempts)
                      THEN pc' = "pollSleep" /\ err' = err /\ errRef' = errRef /\ errReason' = errReason
                    ELSE FailWithRef("Polling timed out", r.value)
            [] r.pc = "thrown" ->
                 /\ IF o.kind = "rejected" THEN FailWithReason("Submit error", o.message)
                    ELSE Fail(o.kind)
                 /\ retry' = RetryIdle
                 /\ UNCHANGED << requestHash, pollI >>
            [] OTHER ->
                 /\ retry' = r
                 /\ UNCHANGED << pc, err, errRef, errReason, requestHash, pollI >>
  /\ UNCHANGED << validated, ops, sent, signed, gas, result, quote, lastStatus, allowance, returned, balance, valVars, fnlog, searchVars, resolveVars,
                  queryTimes >>

\* submitPermit2: the back-off timer of withRetry fires
SubmitBackoff ==
  /\ pc = "submitPermit2" /\ retry.pc = "sleep"
  /\ retry' = withRetry_wake(retry)
  /\ UNCHANGED << pc, err, errRef, errReason, validated, ops, sent, signed, posted, gas, requestHash,
                  pollI, result, quote, lastStatus, allowance, returned, balance, valVars, fnlog, searchVars, resolveVars,
                  submitData, queryTimes >>

pollDelay_shrinking(i) == IF i < 4 THEN 15000 ELSE 10000

\* pollStatus: `const delay = i < 4 ? 15_000 : 30_000`
pollDelay(i) == IF i < 4 THEN 15000 ELSE 30000

\* pollStatus: `await new Promise(r => setTimeout(r, delay))`; the timer is
\* taken to fire exactly on time and the query to be answered at once, which
\* is the closest together two queries can be
PollSleep ==
  /\ pc = "pollSleep"
  /\ Count("sleep")
  /\ clock' = clock + pollDelay(pollI)
  /\ lastStatus' = None
  /\ pc' = "pollQuery"
  /\ UNCHANGED << err, errRef, errReason, validated, sent, signed, posted, gas, requestHash, pollI, result,
                  quote, allowance, returned, balance, valVars, retryVars,
                  searchCache, lookup, lookups, fetches, resolveVars,
                  submitData, queryTimes >>

\* what results[0] of a status response can be: nothing, or a status object
StatusObjects ==
  {None} \cup
  {Some(st) : st \in [bungeeStatusCode : {None} \cup {Some(c) : c \in 1..8},
                      destinationTxHash : {None}]} \cup
  {Some(st) : st \in [bungeeStatusCode : {Some(3), Some(4)},
                      destinationTxHash : {Some("0xdest")}]}

pollStatus_classify_completedonly(code) ==
  IF code = Some(3) THEN "return"
  ELSE IF code = Some(5) THEN "Request expired"
  ELSE IF code = Some(6) THEN "Request cancelled"
  ELSE IF code = Some(7) THEN "Request refunded"
  ELSE "continue"

pollStatus_classify_refundedpending(code) ==
  IF code = Some(3) \/ code = Some(4) THEN "return"
  ELSE IF code = Some(5) THEN "Request expired"
  ELSE IF code = Some(6) THEN "Request cancelled"
  ELSE "continue"

pollStatus_classify_unknownfatal(code) ==
  IF code = Some(3) \/ code = Some(4) THEN "return"
  ELSE IF code = Some(5) THEN "Request expired"
  ELSE IF code = Some(6) THEN "Request cancelled"
  ELSE IF code = Some(7) THEN "Request refunded"
  ELSE IF code = Some(1) \/ code = Some(2) THEN "continue"
  ELSE "Request failed"

\* pollStatus: what the loop body does with `status?.bungeeStatusCode`:
\* return the status, throw the named error, or go round again
pollStatus_classify(code) ==
  IF code = Some(3) \/ code = Some(4) THEN "return"
  ELSE IF code = Some(5) THEN "Request expired"
  ELSE IF code = Some(6) THEN "Request cancelled"
  ELSE IF code = Some(7) THEN "Request refunded"
  ELSE "continue"

settlementId_fromquote(q, polled) == q.requestHash

\* the requestHash of the object executeSwap returns: quote.requestHash in
\* executeNativeTokenSwap, the local requestHash in executePermit2Swap
settlementId(q, polled) ==
  IF q.userOp = Some("tx") /\ IsSome(q.txData) THEN q.requestHash ELSE polled

\* pollStatus: getStatus(requestHash) and the rest of the loop body; a return
\* of pollStatus is the return of executeSwap
PollQuery ==
  /\ pc = "pollQuery"
  /\ Count("statusQuery")
  /\ queryTimes' = Append(queryTimes, clock)
  /\ \/ \E status \in StatusObjects :
          LET code == IF IsSome(status) THEN status[1].bungeeStatusCode ELSE None
              what == pollStatus_classify(code)
          IN /\ lastStatus' = status
             /\ IF what = "return"
                  THEN /\ pc' = "done" /\ err' = err /\ errRef' = errRef /\ errReason' = errReason
                       /\ result' = status /\ pollI' = pollI
                       /\ returned' = Some([requestHash |-> settlementId(quote, requestHash),
                                            status |-> status])
                ELSE IF what = "continue"
                  THEN /\ pollI' = pollI + 1
                       /\ UNCHANGED << result, returned >>
                       /\ IF pollStatus_continue(pollI + 1, MaxPollAttempts)
                            THEN pc' = "pollSleep" /\ err' = err /\ errRef' = errRef /\ errReason' = errReason
                          ELSE FailWithRef("Polling timed out", requestHash)
                ELSE Fail(what) /\ UNCHANGED << result, pollI, returned >>
     \/ \E k \in FailureKinds :
          Fail(k) /\ UNCHANGED << result, pollI, lastStatus, returned >>
  /\ UNCHANGED << validated, sent, signed, posted, gas, requestHash,
                  quote, allowance, balance, valVars, retryVars, searchVars, resolveVars,
                  submitData >>

Next ==
  \/ ExecuteSwap
  \/ NativeEntry \/ EstimateGas \/ GetGasPrice \/ GetBalanceNative
  \/ SendTransaction \/ WaitForTransactionReceipt
  \/ Permit2Entry \/ ReadAllowance \/ SimulateApprove \/ WriteApprove
  \/ WaitApprovalReceipt \/ GetBalancePermit2 \/ CheckSignData \/ SignTypedData
  \/ SubmitPost \/ SubmitBackoff
  \/ PollSleep \/ PollQuery

Spec == InitSwap /\ [][Next]_vars

\* ------------------------------------------------------------------------
\* cachedSearch: the token search behind resolveToken, with its cache
\* ------------------------------------------------------------------------

\* const CACHE_TTL = 60_000
CACHE_TTL == 60000

\* how many calls of cachedSearch one process makes
MaxLookups == 3

\* the latest instant the clock reaches
MaxClock == 120000

\* how far the clock moves between two observations: just short of the TTL,
\* or exactly the TTL
ClockSteps == {CACHE_TTL - 1, CACHE_TTL}

\* the token lists a search response can carry
SearchResults == {"r1", "r2"}

\* the throws of searchTokens: one of safeFetch, and its own
SearchFailures == {"429", "Failed to search tokens"}

cacheFresh_inverted(now, ts) == now - ts >= CACHE_TTL

cacheFresh_inclusive(now, ts) == now - ts <= CACHE_TTL

\* cachedSearch: `Date.now() - cached.ts < CACHE_TTL`
cacheFresh(now, ts) == now - ts < CACHE_TTL

InitSearch ==
  /\ SearchIdle
  /\ ResolveIdle
  /\ ValidateIdle
  /\ RetryHarnessIdle
  /\ RunIdle

\* cachedSearch(query) up to its await: the key, the cache read, and either
\* the return of the cached results or the call of searchTokens(query)
CachedSearchCall ==
  /\ lookup.pc = "idle"
  /\ Len(lookups) < MaxLookups
  /\ \E query \in SearchQueries :
       LET key == toLowerCase(query)
           cached == searchCache[key]
       IN IF IsSome(cached) /\ cacheFresh(clock, cached[1].ts)
            THEN /\ lookups' = Append(lookups,
                      [query |-> query, key |-> key, at |-> clock, cached |-> cached,
                       hit |-> TRUE, ok |-> TRUE, results |-> cached[1].results,
                       doneAt |-> clock])
                 /\ UNCHANGED << lookup, fetches >>
          ELSE /\ lookup' = [pc |-> "fetching", query |-> query, key |-> key,
                              at |-> clock, cached |-> cached]
               /\ fetches' = fetches + 1
               /\ lookups' = lookups
  /\ UNCHANGED << searchCache, clock, valVars, retryVars, runVars, resolveVars >>

SearchSettle_refreshonfailure ==
  /\ lookup.pc = "fetching"
  /\ \/ \E results \in SearchResults :
          /\ searchCache' = [searchCache EXCEPT
                               ![lookup.key] = Some([results |-> results, ts |-> clock])]
          /\ lookups' = Append(lookups,
               [query |-> lookup.query, key |-> lookup.key, at |-> lookup.at,
                cached |-> lookup.cached, hit |-> FALSE, ok |-> TRUE,
                results |-> results, doneAt |-> clock])
     \/ \E k \in SearchFailures :
          /\ searchCache' = [searchCache EXCEPT
                               ![lookup.key] =
                                 IF IsSome(lookup.cached)
                                   THEN Some([results |-> lookup.cached[1].results,
                                              ts |-> clock])
                                 ELSE None]
          /\ lookups' = Append(lookups,
               [query |-> lookup.query, key |-> lookup.key, at |-> lookup.at,
                cached |-> lookup.cached, hit |-> FALSE, ok |-> FALSE,
                results |-> k, doneAt |-> clock])
  /\ lookup' = NoLookup
  /\ UNCHANGED << clock, fetches, valVars, retryVars, runVars, resolveVars >>

\* searchTokens settles: its results are stored under the key with the time
\* of the store and returned, or its throw leaves cachedSearch
SearchSettle ==
  /\ lookup.pc = "fetching"
  /\ \/ \E results \in SearchResults :
          /\ searchCache' = [searchCache EXCEPT
                               ![lookup.key] = Some([results |-> results, ts |-> clock])]
          /\ lookups' = Append(lookups,
               [query |-> lookup.query, key |-> lookup.key, at |-> lookup.at,
                cached |-> lookup.cached, hit |-> FALSE, ok |-> TRUE,
                results |-> results, doneAt |-> clock])
     \/ \E k \in SearchFailures :
          /\ searchCache' = searchCache
          /\ lookups' = Append(lookups,
               [query |-> lookup.query, key |-> lookup.key, at |-> lookup.at,
                cached |-> lookup.cached, hit |-> FALSE, ok |-> FALSE,
                results |-> k, doneAt |-> clock])
  /\ lookup' = NoLookup
  /\ UNCHANGED << clock, fetches, valVars, retryVars, runVars, resolveVars >>

\* time passes, between two calls or while a search is awaited
Tick ==
  /\ \E d \in ClockSteps :
       /\ clock + d <= MaxClock
       /\ clock' = clock + d
  /\ UNCHANGED << searchCache, lookup, lookups, fetches, valVars, retryVars, runVars, resolveVars >>

NextSearch == CachedSearchCall \/ SearchSettle \/ Tick

SpecSearch == InitSearch /\ [][NextSearch]_vars

\* ------------------------------------------------------------------------
\* resolveToken(input, chainId) on the results of one token search
\* ------------------------------------------------------------------------

\* how many tokens a search response lists
MaxTokens == 2

\* TokenSearchResult: two tokens (a symbol with its address), each on two
\* chains, verified or not and shortlisted or not; a verified listing has 6
\* decimals and an unverified one 18
TokenPool ==
  { t \in [ chainId : ChainIds,
            address : {USDC_ADDRESS, PERMIT2_ADDRESS},
            symbol : {<< "F", "X", "D" >>, << "D", "E", "X" >>},
            decimals : {6, 18},
            isVerified : BOOLEAN,
            isShortListed : BOOLEAN ] :
      /\ t.isVerified <=> t.decimals = 6
      /\ t.address = USDC_ADDRESS <=> t.symbol = << "F", "X", "D" >> }

Listings == UNION {[1..n -> TokenPool] : n \in 0..MaxTokens}

\* the keys of a per-chain map in the order Object.values visits them:
\* integer-like keys ascending
ChainOrder == << 1, 8453 >>

\* data.result: a flat array, or { tokens: { [chainId]: TokenSearchResult[] } }
\* with each listing filed under its chain
SearchResponses ==
  {[shape |-> "flat", tokens |-> l] : l \in Listings} \cup
  {[shape |-> "grouped",
    tokens |-> [c \in ChainIds |-> SelectSeq(l, LAMBDA t : t.chainId = c)]] :
     l \in Listings}

\* a symbol in two spellings; a listed address as listed and lower-cased; an
\* address no token has
ResolveInputs ==
  { << "F", "X", "D" >>, << "f", "x", "d" >>,
    USDC_ADDRESS, toLowerCase(USDC_ADDRESS), ZERO_ADDRESS }

\* searchTokens: the comparator's score of a token
score(t) == (IF t.isShortListed THEN 2 ELSE 0) + (IF t.isVerified THEN 1 ELSE 0)

\* where Array.prototype.sort, which is stable, leaves t among tokens already
\* in descending order of score: behind every token of at least its score
InsertByScore(sorted, t) ==
  LET n == Cardinality({i \in 1..Len(sorted) : score(sorted[i]) >= score(t)})
  IN SubSeq(sorted, 1, n) \o << t >> \o SubSeq(sorted, n + 1, Len(sorted))

\* flat.sort((a, b) => bScore - aScore)
RECURSIVE sortByScore(_)
sortByScore(flat) ==
  IF flat = << >> THEN << >>
  ELSE InsertByScore(sortByScore(SubSeq(flat, 1, Len(flat) - 1)), flat[Len(flat)])

\* for (const chainTokens of Object.values(tokens)) flat.push(...chainTokens)
RECURSIVE flattenByChain(_, _)
flattenByChain(tokens, order) ==
  IF order = << >> THEN << >>
  ELSE tokens[Head(order)] \o flattenByChain(tokens, Tail(order))

\* searchTokens, from the parsed response on: an array is returned as it is,
\* a per-chain map is flattened and sorted
searchTokens(dataResult) ==
  IF dataResult.shape = "flat" THEN dataResult.tokens
  ELSE sortByScore(flattenByChain(dataResult.tokens, ChainOrder))

\* input.startsWith('0x') && input.length === 42
isAddress(input) ==
  Len(input) = AddrLen /\ input[1] = "0" /\ input[2] = "x"

\* Array.prototype.find: the index of the first element that is one of the
\* matching tokens, or 0
find(list, matching) ==
  LET hits == {i \in 1..Len(list) : list[i] \in matching}
  IN IF hits = {} THEN 0 ELSE CHOOSE i \in hits : \A j \in hits : i <= j

Returned(address, symbol, decimals, warn) ==
  [ok |-> TRUE, warned |-> warn,
   value |-> [address |-> address, symbol |-> symbol, decimals |-> decimals]]

Thrown(message, warn) == [ok |-> FALSE, warned |-> warn, value |-> message]

resolveToken_anychain(results, input, chainId) ==
  IF isAddress(input)
    THEN Returned(input, SubSeq(input, 1, 8), 18, TRUE)
  ELSE LET exactOnChain == find(results, {t \in TokenPool :
                                  toLowerCase(t.symbol) = toLowerCase(input)
                                    /\ t.chainId = chainId})
           anyResult == find(results, {t \in TokenPool : TRUE})
       IN IF exactOnChain # 0
            THEN Returned(results[exactOnChain].address, results[exactOnChain].symbol,
                          results[exactOnChain].decimals, FALSE)
          ELSE IF anyResult # 0
            THEN Returned(results[anyResult].address, results[anyResult].symbol,
                          results[anyResult].decimals, FALSE)
          ELSE Thrown("not found", FALSE)

resolveToken_strict(results, input, chainId) ==
  LET match == find(results, {t \in TokenPool :
                      toLowerCase(t.address) = toLowerCase(input) /\ t.chainId = chainId})
  IN IF match # 0
       THEN Returned(results[match].address, results[match].symbol,
                     results[match].decimals, FALSE)
     ELSE Thrown("not found", FALSE)

\* resolveToken, from the search results on
resolveToken(results, input, chainId) ==
  IF isAddress(input)
    THEN LET match == find(results, {t \in TokenPool :
                             toLowerCase(t.address) = toLowerCase(input)
                               /\ t.chainId = chainId})
             anyMatch == find(results, {t \in TokenPool :
                                toLowerCase(t.address) = toLowerCase(input)})
         IN IF match # 0
              THEN Returned(results[match].address, results[match].symbol,
                            results[match].decimals, FALSE)
            ELSE IF anyMatch # 0
              THEN Returned(input, results[anyMatch].symbol,
                            results[anyMatch].decimals, FALSE)
            ELSE Returned(input, SubSeq(input, 1, 8), 18, TRUE)
  ELSE LET exactOnChain == find(results, {t \in TokenPool :
                                  toLowerCase(t.symbol) = toLowerCase(input)
                                    /\ t.chainId = chainId})
           onChain == find(results, {t \in TokenPool : t.chainId = chainId})
       IN IF exactOnChain # 0
            THEN Returned(results[exactOnChain].address, results[exactOnChain].symbol,
                          results[exactOnChain].decimals, FALSE)
          ELSE IF onChain # 0
            THEN Returned(results[onChain].address, results[onChain].symbol,
                          results[onChain].decimals, FALSE)
          ELSE Thrown("not found", FALSE)

InitResolve ==
  /\ resolveArgs \in [input : ResolveInputs, chainId : ChainIds]
  /\ response \in SearchResponses
  /\ resolvePc = "searchTokens"
  /\ tokenList = << >> /\ resolved = None /\ warned = FALSE
  /\ ValidateIdle
  /\ RetryHarnessIdle
  /\ RunIdle
  /\ SearchIdle

\* `const results = await cachedSearch(input)` in a process whose cache has
\* no entry for the input: searchTokens returns its list, or throws
SearchTokensReturn ==
  /\ resolvePc = "searchTokens"
  /\ \/ /\ tokenList' = searchTokens(response)
        /\ resolvePc' = "resolveToken"
        /\ resolved' = resolved
     \/ /\ resolvePc' = "thrown"
        /\ resolved' = Some(Thrown("Failed to search tokens", FALSE))
        /\ tokenList' = tokenList
  /\ UNCHANGED << resolveArgs, response, warned, valVars, retryVars, runVars, searchVars >>

\* the rest of resolveToken: the lookups in results, the warning, the return
ResolveTokenReturn ==
  /\ resolvePc = "resolveToken"
  /\ LET r == resolveToken(tokenList, resolveArgs.input, resolveArgs.chainId)
     IN /\ resolved' = Some(r)
        /\ warned' = r.warned
        /\ resolvePc' = IF r.ok THEN "returned" ELSE "thrown"
  /\ UNCHANGED << resolveArgs, response, tokenList, valVars, retryVars, runVars, searchVars >>

NextResolve == SearchTokensReturn \/ ResolveTokenReturn

SpecResolve == InitResolve /\ [][NextResolve]_vars

\* ------------------------------------------------------------------------
\* getQuote(params) and buildQuoteParams(params)
\* ------------------------------------------------------------------------

\* '0x02Bc8c352b58d929Cc3D60545511872c85F30650'
FEE_TAKER_ADDRESS ==
  << "0","x","0","2","B","c","8","c","3","5","2","b","5","8","d","9","2","9",
     "C","c","3","D","6","0","5","4","5","5","1","1","8","7","2","c","8","5",
     "F","3","0","6","5","0" >>

\* '20'
FEE_BPS == << "2", "0" >>

DigitChar(d) ==
  CASE d = 0 -> "0" [] d = 1 -> "1" [] d = 2 -> "2" [] d = 3 -> "3" [] d = 4 -> "4"
    [] d = 5 -> "5" [] d = 6 -> "6" [] d = 7 -> "7" [] d = 8 -> "8" [] d = 9 -> "9"

\* String(n) of a non-negative integer: its decimal digits
RECURSIVE String(_)
String(n) ==
  IF n < 10 THEN << DigitChar(n) >>
  ELSE Append(String(n \div 10), DigitChar(n % 10))

\* the QuoteParams a caller passes; the receiver is left out, empty, or given
QuoteParams ==
  [ userAddress : {<< "0", "x", "u", "s", "e", "r" >>},
    receiverAddress : {None, Some(<< >>),
                       Some(<< "0", "x", "r", "e", "c", "e", "i", "v", "e", "r" >>)},
    originChainId : ChainIds,
    destinationChainId : ChainIds,
    inputToken : {NATIVE_TOKEN_ADDRESS, USDC_ADDRESS},
    outputToken : {USDC_ADDRESS},
    inputAmount : RunInputAmounts ]

\* `a || b` on an optional string: undefined and '' are falsy
OrElse(a, b) == IF IsSome(a) /\ a[1] # << >> THEN a[1] ELSE b

buildQuoteParams_crossed(params) ==
  [ userAddress |-> params.userAddress,
    receiverAddress |-> OrElse(params.receiverAddress, params.userAddress),
    originChainId |-> String(params.destinationChainId),
    destinationChainId |-> String(params.originChainId),
    inputToken |-> params.inputToken,
    outputToken |-> params.outputToken,
    inputAmount |-> params.inputAmount,
    feeTakerAddress |-> FEE_TAKER_ADDRESS,
    feeBps |-> FEE_BPS ]

\* buildQuoteParams: the entries of the URLSearchParams it returns
buildQuoteParams(params) ==
  [ userAddress |-> params.userAddress,
    receiverAddress |-> OrElse(params.receiverAddress, params.userAddress),
    originChainId |-> String(params.originChainId),
    destinationChainId |-> String(params.destinationChainId),
    inputToken |-> params.inputToken,
    outputToken |-> params.outputToken,
    inputAmount |-> params.inputAmount,
    feeTakerAddress |-> FEE_TAKER_ADDRESS,
    feeBps |-> FEE_BPS ]

\* what the remote may say about the request inside autoRoute: nothing, or
\* values that are not those of any request made here
QuoteEchoes ==
  { [inputAmount |-> None, inputToken |-> None, outputToken |-> None,
     originChainId |-> None, destinationChainId |-> None],
    [inputAmount |-> Some(<< "1", "1" >>), inputToken |-> Some(PERMIT2_ADDRESS),
     outputToken |-> Some(ZERO_ADDRESS),
     originChainId |-> Some(0), destinationChainId |-> Some(0)] }

\* the autoRoute objects of a quote response
AutoRoutes ==
  { a \in
      [ quoteId : {"q1"}, requestType : {"rt"},
        signTypedData :
          {None} \cup {Some([domain |-> [verifyingContract |-> PERMIT2_ADDRESS],
                             types |-> "types",
                             values |-> [permitted |-> None, witness |-> w]]) :
                         w \in {None, Some("witness")}},
        approvalData : {None},
        txData : {None, Some([value |-> << "1" >>, to |-> USDC_ADDRESS,
                              data |-> "0xcalldata", chainId |-> None])},
        userOp : {None, Some("tx")},
        requestHash : {None, Some("0xreq")},
        output : {None, Some([amount |-> << "1", "0" >>])},
        outputAmount : {None, Some(<< "1", "1" >>)},
        echo : QuoteEchoes ] :
      IsSome(a.txData) <=> a.userOp = Some("tx") }

\* the bodies GET /quote is answered with
QuoteData ==
  { [success |-> FALSE, result |-> None],
    [success |-> TRUE, result |-> None],
    [success |-> TRUE, result |-> Some([autoRoute |-> None])] }
    \cup {[success |-> TRUE, result |-> Some([autoRoute |-> Some(a)])] : a \in AutoRoutes}

\* what one GET /quote is answered with: a JSON body, or a throw of
\* safeFetch / fetch before there is a body
QuoteAnswers ==
  {[kind |-> "body", data |-> Some(d)] : d \in QuoteData}
    \cup {[kind |-> k, data |-> None] : k \in {"429", "network"}}

getQuote_fn_echoed(params, d) ==
  IF ~d.success THEN [ok |-> FALSE, kind |-> "Quote error", val |-> 0]
  ELSE IF ~IsSome(d.result)
    THEN [ok |-> FALSE, kind |-> "No result in quote response", val |-> 0]
  ELSE IF ~IsSome(d.result[1].autoRoute)
    THEN [ok |-> FALSE, kind |-> "No autoRoute available", val |-> 0]
  ELSE LET auto == d.result[1].autoRoute[1]
       IN [ok |-> TRUE, kind |-> "",
           val |-> [quoteId |-> auto.quoteId,
                    requestType |-> auto.requestType,
                    witness |-> IF IsSome(auto.signTypedData)
                                  THEN auto.signTypedData[1].values.witness
                                ELSE None,
                    signTypedData |-> auto.signTypedData,
                    approvalData |-> auto.approvalData,
                    txData |-> auto.txData,
                    userOp |-> auto.userOp,
                    requestHash |-> auto.requestHash,
                    inputAmount |-> OrElse(auto.echo.inputAmount, params.inputAmount),
                    outputAmount |->
                      IF IsSome(auto.output) THEN auto.output[1].amount
                      ELSE OrElse(auto.outputAmount, << "0" >>),
                    inputToken |-> OrElse(auto.echo.inputToken, params.inputToken),
                    outputToken |-> OrElse(auto.echo.outputToken, params.outputToken),
                    originChain |-> params.originChainId,
                    destChain |-> params.destinationChainId]]

\* getQuote: what the wrapped call does with the body of the response
getQuote_fn(params, d) ==
  IF ~d.success THEN [ok |-> FALSE, kind |-> "Quote error", val |-> 0]
  ELSE IF ~IsSome(d.result)
    THEN [ok |-> FALSE, kind |-> "No result in quote response", val |-> 0]
  ELSE IF ~IsSome(d.result[1].autoRoute)
    THEN [ok |-> FALSE, kind |-> "No autoRoute available", val |-> 0]
  ELSE LET auto == d.result[1].autoRoute[1]
       IN [ok |-> TRUE, kind |-> "",
           val |-> [quoteId |-> auto.quoteId,
                    requestType |-> auto.requestType,
                    witness |-> IF IsSome(auto.signTypedData)
                                  THEN auto.signTypedData[1].values.witness
                                ELSE None,
                    signTypedData |-> auto.signTypedData,
                    approvalData |-> auto.approvalData,
                    txData |-> auto.txData,
                    userOp |-> auto.userOp,
                    requestHash |-> auto.requestHash,
                    inputAmount |-> params.inputAmount,
                    outputAmount |->
                      IF IsSome(auto.output) THEN auto.output[1].amount
                      ELSE OrElse(auto.outputAmount, << "0" >>),
                    inputToken |-> params.inputToken,
                    outputToken |-> params.outputToken,
                    originChain |-> params.originChainId,
                    destChain |-> params.destinationChainId]]

\* a call of getQuote(params) has entered withRetry with its defaults
InitQuote ==
  /\ vfn = "getQuote"
  /\ vargs \in QuoteParams
  /\ vres = None
  /\ retry = withRetry_enter(DefaultAttempts, DefaultDelayMs)
  /\ fnlog = << >>
  /\ RunIdle
  /\ SearchIdle
  /\ ResolveIdle

\* getQuote: one invocation of the wrapped call, which builds the query from
\* params, issues the GET (logged with its query) and maps the response
GetQuoteCall ==
  /\ vfn = "getQuote" /\ retry.pc = "call"
  /\ fnlog' = Append(fnlog, buildQuoteParams(vargs))
  /\ \E answer \in QuoteAnswers :
       LET o == IF answer.kind = "body" THEN getQuote_fn(vargs, answer.data[1])
                ELSE [ok |-> FALSE, kind |-> answer.kind, val |-> 0]
           r == withRetry_call(retry, o)
       IN /\ retry' = r
          /\ vres' = CASE r.pc = "returned" ->
                            Some([ok |-> TRUE, value |-> o.val, data |-> answer.data])
                       [] r.pc = "thrown" ->
                            Some([ok |-> FALSE, value |-> o.kind, data |-> answer.data])
                       [] OTHER -> vres
  /\ UNCHANGED << vfn, vargs, runVars, searchVars, resolveVars >>

\* getQuote: the back-off timer of withRetry fires
GetQuoteBackoff ==
  /\ vfn = "getQuote" /\ retry.pc = "sleep"
  /\ retry' = withRetry_wake(retry)
  /\ UNCHANGED << valVars, fnlog, runVars, searchVars, resolveVars >>

NextQuote == GetQuoteCall \/ GetQuoteBackoff

SpecQuote == InitQuote /\ [][NextQuote]_vars

\* ------------------------------------------------------------------------
\* Properties of the validators (SpecValidate)
\* ------------------------------------------------------------------------

\* the integer a decimal string denotes, read from its most significant digit
RECURSIVE Pow10(_)
Pow10(n) == IF n = 0 THEN 1 ELSE 10 * Pow10(n - 1)

RECURSIVE NumeralValue(_)
NumeralValue(s) ==
  IF s = << >> THEN 0
  ELSE DigitVal(Head(s)) * Pow10(Len(s) - 1) + NumeralValue(Tail(s))

SameIgnoringCase(a, b) == toUpperCase(a) = toUpperCase(b)

NativeApplied == vfn = "native" /\ vres # "pending"

Permit2Applied == vfn = "permit2" /\ vres # "pending"

\* C3: validateNativeTxData fails whenever txData.value and the expected
\* input amount denote different integers (even by one unit) and never
\* raises the value mismatch when they denote the same integer.
C3_ValueCheckExact ==
  NativeApplied =>
    LET v == NumeralValue(vargs.txData.value)
        e == NumeralValue(vargs.expectedAmount)
    IN /\ v # e => vres = "txData.value does not match expected input amount"
       /\ v = e => vres # "txData.value does not match expected input amount"

\* C3 witness: values one unit apart were rejected, and a value written with
\* a leading zero was accepted as equal to the expected amount
C3_Witness ==
  /\ NativeApplied
  /\ vargs.txData.value = << "0", "1" >>
  /\ vargs.expectedAmount = << "1" >>
  /\ vres = "ok"

\* C5: validatePermit2SignData fails with the verifyingContract mismatch
\* whenever domain.verifyingContract differs from the canonical Permit2
\* address ignoring letter case, and never raises it for a letter-case
\* variant of the canonical address.
C5_VerifyingContractCaseInsensitive ==
  Permit2Applied =>
    LET vc == vargs.signTypedData.domain.verifyingContract
    IN (vres = "Permit2 verifyingContract mismatch") <=> ~SameIgnoringCase(vc, PERMIT2_ADDRESS)

\* C5 witness: an upper-case spelling of the canonical address was accepted
C5_Witness ==
  /\ Permit2Applied
  /\ vargs.signTypedData.domain.verifyingContract = toUpperCase(PERMIT2_ADDRESS)
  /\ vargs.signTypedData.domain.verifyingContract # PERMIT2_ADDRESS
  /\ vres = "ok"

\* C6: with the canonical verifyingContract, a payload that has a
\* `permitted` object passes exactly when permitted.amount is the expected
\* amount (as text, so amounts denoting different integers never pass) and
\* permitted.token is the expected token ignoring letter case; a payload
\* without `permitted` passes.
C6_PermittedMustMatch ==
  (Permit2Applied
     /\ SameIgnoringCase(vargs.signTypedData.domain.verifyingContract, PERMIT2_ADDRESS)) =>
    LET permitted == vargs.signTypedData.values.permitted
    IN IF permitted = None THEN vres = "ok"
       ELSE /\ (vres = "ok") <=>
                 /\ permitted[1].amount = vargs.expectedAmount
                 /\ SameIgnoringCase(permitted[1].token, vargs.expectedToken)
            /\ NumeralValue(permitted[1].amount) # NumeralValue(vargs.expectedAmount)
                 => vres = "Permit2 amount mismatch"

\* C6 witness: a permitted token spelled in another letter case was accepted,
\* with a matching amount
C6_Witness ==
  /\ Permit2Applied
  /\ vargs.signTypedData.values.permitted # None
  /\ vargs.signTypedData.values.permitted[1].token = USDC_ADDRESS
  /\ vargs.expectedToken = toLowerCase(USDC_ADDRESS)
  /\ vres = "ok"

\* C8: validateNativeTxData fails whenever the payload carries a chain id
\* different from the expected origin chain, whatever its value; a payload
\* without a chain id passes the chain check.
C8_ChainIdMustMatch ==
  NativeApplied =>
    LET c == vargs.txData.chainId
    IN /\ (IsSome(c) /\ c[1] # vargs.expectedChainId) => vres # "ok"
       /\ c = None => vres # "txData.chainId does not match origin chain"

\* ------------------------------------------------------------------------
\* Properties of withRetry (SpecRetry)
\* ------------------------------------------------------------------------

RetryRunning == retry.pc \in {"call", "sleep", "returned", "thrown"}

\* C9: a failure outside the retryable subset (a remote success:false
\* rejection) is not retried: the call has been invoked exactly once and
\* that failure is re-raised.
C9_NonRetryableNotRetried ==
  (RetryRunning /\ Len(fnlog) >= 1 /\ ~fnlog[1].ok /\ fnlog[1].kind \notin TransientKinds) =>
    /\ retry.pc = "thrown"
    /\ retry.calls = 1
    /\ retry.err = [kind |-> fnlog[1].kind, call |-> 1]

\* C10: for attempts >= 1, a return comes from invocation k+1 <= attempts
\* after k failed invocations and hands back that invocation's value; a throw
\* comes after exactly `attempts` invocations, all failed, and raises the
\* failure of the last one.
C10_RetryCounts ==
  (RetryRunning /\ retry.attempts >= 1) =>
    /\ retry.calls = Len(fnlog)
    /\ retry.calls <= retry.attempts
    /\ \A j \in 1..(Len(fnlog) - 1) : ~fnlog[j].ok
    /\ retry.pc = "returned" =>
         /\ fnlog[Len(fnlog)].ok
         /\ retry.value = Some(fnlog[Len(fnlog)].val)
    /\ retry.pc = "thrown" =>
         /\ retry.calls = retry.attempts
         /\ ~fnlog[retry.attempts].ok
         /\ retry.err = [kind |-> fnlog[retry.attempts].kind, call |-> retry.attempts]
    /\ retry.pc \in {"call", "sleep"} => (Len(fnlog) >= 1 => ~fnlog[Len(fnlog)].ok)

\* C10 witness: two failures, then the third invocation's value was returned
C10_Witness ==
  /\ retry.pc = "returned"
  /\ retry.attempts = 3
  /\ retry.calls = 3
  /\ ~fnlog[1].ok /\ ~fnlog[2].ok
  /\ retry.value = Some(3)

\* ------------------------------------------------------------------------
\* Properties of a run of executeSwap (Spec)
\* ------------------------------------------------------------------------

NativeDispatched ==
  pc # "idle" /\ quote.userOp = Some("tx") /\ IsSome(quote.txData)

PastNativeEntry == pc \notin {"idle", "executeSwap", "executeNativeTokenSwap"}

ValidationErrors ==
  { "txData.value does not match expected input amount",
    "txData.to is the zero address",
    "txData.chainId does not match origin chain",
    "Permit2 verifyingContract mismatch",
    "Permit2 amount mismatch",
    "Permit2 token mismatch" }

\* C1: in both flows the quote validator has returned normally before the
\* run hands any transaction (the direct transfer or the ERC-20 approval)
\* to the wallet and before it signs; a run that ends in a validation error
\* has sent nothing and signed nothing.
C1_ValidationBeforeSendAndSign ==
  /\ (sent # << >> \/ signed # << >>) => validated
  /\ (pc = "failed" /\ err \in ValidationErrors) => (sent = << >> /\ signed = << >>)

\* C2: within one run at most one POST /submit is issued for the quote,
\* whatever the responses are.
C2_SubmitAtMostOnce == Len(posted) <= 1

\* C4 as stated: in the native flow a quote whose txData.value differs from
\* its inputAmount ends in the value-mismatch validation error, with no gas
\* estimation, gas-price read, balance read, transaction or status query.
C4_MismatchFailsWithValidationError ==
  (NativeDispatched /\ PastNativeEntry
     /\ NumeralValue(quote.txData[1].value) # NumeralValue(quote.inputAmount)) =>
    /\ pc = "failed"
    /\ err = "txData.value does not match expected input amount"
    /\ ops = NoOps /\ sent = << >>

\* C4 amended: such a quote ends in the value-mismatch validation error when
\* it carries a requestHash and in the missing-requestHash error when it does
\* not; either way before any gas estimation, gas-price read, balance read or
\* transaction, and no status query is issued.
C4_MismatchFailsBeforeAnyCall ==
  (NativeDispatched /\ PastNativeEntry
     /\ NumeralValue(quote.txData[1].value) # NumeralValue(quote.inputAmount)) =>
    /\ pc = "failed"
    /\ err = IF IsSome(quote.requestHash)
               THEN "txData.value does not match expected input amount"
               ELSE "Missing requestHash for native token swap"
    /\ ops = NoOps /\ sent = << >> /\ signed = << >> /\ posted = << >>

\* C4 witness: a quote with a requestHash whose value is one unit below the
\* input amount was refused by the validator
C4_Witness ==
  /\ NativeDispatched
  /\ quote.txData[1].value = << "0" >>
  /\ quote.inputAmount = << "1" >>
  /\ pc = "failed"
  /\ err = "txData.value does not match expected input amount"

\* C7: a native payload whose destination is the all-zero address never
\* passes validateNativeTxData, and no run sends the quote's transaction to
\* the all-zero address.
C7_NeverSendsToZeroAddress ==
  /\ (NativeDispatched /\ PastNativeEntry /\ quote.txData[1].to = ZERO_ADDRESS) =>
       (pc = "failed" /\ ~validated /\ sent = << >>)
  /\ \A j \in 1..Len(sent) : sent[j].kind = "transfer" => sent[j].to # ZERO_ADDRESS

\* C7 witness: a payload right in value and chain was refused for its
\* all-zero destination
C7_Witness ==
  /\ NativeDispatched
  /\ quote.txData[1].to = ZERO_ADDRESS
  /\ pc = "failed"
  /\ err = "txData.to is the zero address"

\* ------------------------------------------------------------------------
\* Properties of the status poller and of the approval step (Spec)
\* ------------------------------------------------------------------------

\* bungeeStatusCode of a status response's first result, if it has one
StatusCode(status) == IF IsSome(status) THEN status[1].bungeeStatusCode ELSE None

ApprovalSent == \E j \in 1..Len(sent) : sent[j].kind = "approve"

\* C11: a transient failure (429, non-JSON body, connection failure) of a
\* status query is retried rather than propagated: a run that ends in such a
\* failure while polling has issued the failing query more than once, that
\* is, more status queries than loop iterations.
C11_StatusFailureRetried ==
  (pc = "failed" /\ err \in TransientKinds /\ IsSome(requestHash)) =>
    ops.statusQuery > pollI + 1

\* C12: after k-1 non-terminal responses, a Completed (3) or CompletedPartial
\* (4) response ends pollStatus with exactly k status queries, k <=
\* maxAttempts, and the k-th response's status object as the result.
C12_CompletedReturnsKthStatus ==
  /\ StatusCode(lastStatus) \in {Some(3), Some(4)} => pc = "done"
  /\ pc = "done" =>
       /\ StatusCode(lastStatus) \in {Some(3), Some(4)}
       /\ result = lastStatus
       /\ ops.statusQuery = pollI + 1
       /\ ops.statusQuery <= MaxPollAttempts

\* C12 witness: the run returned on the last permitted query with a
\* CompletedPartial status carrying a destination hash
C12_Witness ==
  /\ pc = "done"
  /\ ops.statusQuery = MaxPollAttempts
  /\ result = Some([bungeeStatusCode |-> Some(4), destinationTxHash |-> Some("0xdest")])

\* C13: an Expired (5), Cancelled (6) or Refunded (7) response ends the run
\* at once with the error of that code, at whatever attempt index it comes:
\* the queries and sleeps issued are those of the iterations so far.
C13_FatalStatusTerminates ==
  \A c \in {5, 6, 7} :
    StatusCode(lastStatus) = Some(c) =>
      /\ pc = "failed"
      /\ err = (CASE c = 5 -> "Request expired"
                  [] c = 6 -> "Request cancelled"
                  [] c = 7 -> "Request refunded")
      /\ ops.statusQuery = pollI + 1
      /\ ops.sleep = pollI + 1
      /\ result = None /\ returned = None

\* C13 witness: a Refunded response at the last attempt index
C13_Witness ==
  /\ StatusCode(lastStatus) = Some(7)
  /\ pollI = MaxPollAttempts - 1
  /\ pc = "failed" /\ err = "Request refunded"

\* C14: pollStatus never issues more than maxAttempts status queries; when
\* every response was non-terminal it has issued exactly maxAttempts and the
\* run has failed with the timeout error, whose message carries the tracking
\* reference of the settlement id that was polled.
C14_TimeoutAfterMaxAttempts ==
  /\ ops.statusQuery <= MaxPollAttempts
  /\ pollI <= MaxPollAttempts
  /\ pollI = MaxPollAttempts => (pc = "failed" /\ err = "Polling timed out")
  /\ err = "Polling timed out" =>
       /\ pc = "failed"
       /\ pollI = MaxPollAttempts
       /\ ops.statusQuery = MaxPollAttempts
       /\ IsSome(errRef) /\ errRef = requestHash

\* C14 witness: a signed-flow run timed out on the id submit returned
C14_Witness ==
  /\ err = "Polling timed out"
  /\ errRef = Some("0xsubA")
  /\ ops.statusQuery = MaxPollAttempts

\* C15: when the allowance read is at least the required amount (equality
\* included) handleApproval returns with no simulation, no approval
\* transaction and no receipt wait.
C15_SufficientAllowanceNoTransaction ==
  (IsSome(allowance) /\ allowance[1] >= NumeralValue(quote.approvalData[1].amount)) =>
    /\ ops.simulate = 0 /\ ops.receipt = 0
    /\ sent = << >>
    /\ pc \notin {"simulateApprove", "writeApprove", "waitApprovalReceipt"}

\* C15 witness: the allowance equals the required amount and handleApproval
\* has returned
C15_Witness ==
  /\ IsSome(allowance)
  /\ allowance[1] = NumeralValue(quote.approvalData[1].amount)
  /\ pc = "getBalancePermit2"

\* C16: an approval transaction is sent only after the allowance was found
\* insufficient and the approve call was simulated, once; a failed simulation
\* fails the run with the approval-would-fail error, with nothing sent,
\* signed or submitted.
C16_SimulationGuardsApproval ==
  /\ ops.simulate <= 1
  /\ (ApprovalSent \/ pc = "writeApprove") =>
       /\ ops.simulate = 1
       /\ IsSome(allowance)
       /\ allowance[1] < NumeralValue(quote.approvalData[1].amount)
  /\ err = "Approval would fail" =>
       /\ pc = "failed"
       /\ ops.simulate = 1
       /\ sent = << >> /\ signed = << >> /\ posted = << >>

\* C16 witness: the simulation failed after an allowance of zero was read
C16_Witness ==
  /\ err = "Approval would fail"
  /\ allowance = Some(0)
  /\ pc = "failed"

\* C17: while an approval sent by the run is unconfirmed nothing is signed
\* or submitted; a signature made after an approval was made after its
\* receipt.
C17_ApprovalConfirmedBeforeSigning ==
  /\ (ApprovalSent /\ ops.receipt = 0) => (signed = << >> /\ posted = << >>)
  /\ pc = "waitApprovalReceipt" => (ApprovalSent /\ signed = << >> /\ posted = << >>)
  /\ (ApprovalSent /\ signed # << >>) => ops.receipt = 1

\* C17 witness: the run signed after its approval was confirmed
C17_Witness ==
  /\ ApprovalSent
  /\ ops.receipt = 1
  /\ Len(signed) = 1

\* C18: a status query, and the sleep before it, come only after the send
\* step has finished: in the native flow the transaction was sent and its
\* receipt obtained, in the signed flow submit has returned the settlement id.
C18_PollingAfterSend ==
  (pc \in {"pollSleep", "pollQuery"} \/ ops.statusQuery > 0 \/ ops.sleep > 0) =>
    /\ IsSome(requestHash)
    /\ IF NativeDispatched
         THEN /\ Len(sent) = 1 /\ sent[1].kind = "transfer"
              /\ ops.receipt = 1
              /\ requestHash = quote.requestHash
         ELSE /\ signed # << >> /\ posted # << >>
              /\ retry = RetryIdle
              /\ IsSome(submitData)
              /\ requestHash = submitData[1].requestHash

\* C18 witness: the first status query of a native run
C18_Witness ==
  /\ NativeDispatched
  /\ ops.statusQuery = 1
  /\ ops.receipt = 1

\* C19: a run that returns returns one settlement id with a Completed or
\* CompletedPartial status; the id is the one that was polled, which is the
\* quote's requestHash in the native flow and the id submit returned in the
\* signed flow.  Nothing is returned by a run that has not completed.
C19_ReturnsPolledSettlementId ==
  /\ IsSome(returned) <=> pc = "done"
  /\ pc = "done" =>
       /\ IsSome(returned[1].requestHash)
       /\ returned[1].requestHash = requestHash
       /\ returned[1].requestHash =
            (IF NativeDispatched THEN quote.requestHash
             ELSE submitData[1].requestHash)
       /\ StatusCode(returned[1].status) \in {Some(3), Some(4)}
       /\ returned[1].status = lastStatus

\* C19 witness: a signed-flow run returned the id of its submit
C19_Witness ==
  /\ pc = "done"
  /\ ~NativeDispatched
  /\ returned[1].requestHash = Some("0xsubB")

\* ------------------------------------------------------------------------
\* Properties of the search cache (SpecSearch)
\* ------------------------------------------------------------------------

\* the settled lookups i+1..j for the key of lookup j that called searchTokens
FetchesBetween(i, j) ==
  {k \in (i + 1)..j : lookups[k].key = lookups[j].key /\ ~lookups[k].hit}

\* C20: when a lookup fetched its results from the network and the same
\* query is looked up again less than CACHE_TTL after those results arrived,
\* the later lookup is answered from the cache with the first lookup's
\* results and no further network call is made for that query in between.
C20_SecondLookupFromCache ==
  \A i, j \in 1..Len(lookups) :
    ( /\ i < j
      /\ lookups[i].key = lookups[j].key
      /\ ~lookups[i].hit /\ lookups[i].ok
      /\ lookups[j].at - lookups[i].doneAt < CACHE_TTL ) =>
        /\ lookups[j].hit
        /\ lookups[j].results = lookups[i].results
        /\ FetchesBetween(i, j) = {}

\* C20 witness: the same query looked up again one millisecond before its
\* entry expires, answered without a second network call
C20_Witness ==
  /\ Len(lookups) = 2
  /\ lookups[1].query = lookups[2].query
  /\ ~lookups[1].hit /\ lookups[1].ok
  /\ lookups[2].at - lookups[1].doneAt = CACHE_TTL - 1
  /\ lookups[2].hit /\ lookups[2].results = lookups[1].results
  /\ fetches = 1

\* the cache entry lookup i read was there and had reached the TTL
ReadExpired(i) ==
  /\ IsSome(lookups[i].cached)
  /\ lookups[i].at - lookups[i].cached[1].ts >= CACHE_TTL

\* lookup i called searchTokens and got results
Fetched(i) == ~lookups[i].hit /\ lookups[i].ok

\* the entry a lookup that got results stores
StoredBy(i) == Some([results |-> lookups[i].results, ts |-> lookups[i].doneAt])

\* the last lookup before j that got results for the key of j, or 0
LastFetchBefore(j) ==
  LET before == {i \in 1..(j - 1) : lookups[i].key = lookups[j].key /\ Fetched(i)}
  IN IF before = {} THEN 0 ELSE CHOOSE i \in before : \A k \in before : k <= i

\* C21 as stated: every lookup that finds an entry of age TTL or more calls
\* the network and leaves another entry under the key than the one it found.
C21_ExpiredLookupReplacesEntry ==
  \A i \in 1..Len(lookups) :
    (i = Len(lookups) /\ ReadExpired(i)) =>
      /\ ~lookups[i].hit
      /\ searchCache[lookups[i].key] # lookups[i].cached

\* C21, amended: an entry answers a lookup only while its age is strictly
\* below the TTL; a lookup that finds an entry of age TTL or more calls the
\* network, and when that call returns results they replace the entry under
\* the lower-cased query (when it throws, the old entry stays); every lookup
\* reads the entry of the last call that returned results for its key, so a
\* later lookup within the TTL of the replacement is answered with the newer
\* results.
C21_EntryUsedOnlyWhileFresh ==
  /\ \A i \in 1..Len(lookups) :
       /\ lookups[i].hit =>
            /\ IsSome(lookups[i].cached)
            /\ lookups[i].at - lookups[i].cached[1].ts < CACHE_TTL
            /\ lookups[i].results = lookups[i].cached[1].results
       /\ ReadExpired(i) => ~lookups[i].hit
       /\ lookups[i].cached =
            (IF LastFetchBefore(i) = 0 THEN None ELSE StoredBy(LastFetchBefore(i)))
       /\ (i = Len(lookups) /\ Fetched(i)) => searchCache[lookups[i].key] = StoredBy(i)
       /\ (i = Len(lookups) /\ ~Fetched(i)) =>
            searchCache[lookups[i].key] = lookups[i].cached
  /\ \A i, j \in 1..Len(lookups) :
       ( /\ i < j /\ lookups[i].key = lookups[j].key
         /\ ReadExpired(i) /\ Fetched(i)
         /\ lookups[j].at - lookups[i].doneAt < CACHE_TTL ) =>
           (lookups[j].hit /\ lookups[j].results = lookups[i].results)
  /\ fetches = Cardinality({i \in 1..Len(lookups) : ~lookups[i].hit})
                 + (IF lookup.pc = "fetching" THEN 1 ELSE 0)

\* C21 witness: an entry exactly TTL old was not used, the search returned
\* other results, and the other spelling of the query was then answered with
\* them
C21_Witness ==
  /\ Len(lookups) = 3
  /\ Fetched(1) /\ lookups[1].results = "r1"
  /\ lookups[2].key = lookups[1].key
  /\ lookups[2].at - lookups[2].cached[1].ts = CACHE_TTL
  /\ Fetched(2) /\ lookups[2].results = "r2"
  /\ lookups[3].key = lookups[2].key /\ lookups[3].query # lookups[2].query
  /\ lookups[3].hit /\ lookups[3].results = "r2"
  /\ fetches = 2

\* ------------------------------------------------------------------------
\* Properties of the pre-flight checks and of the dispatch (Spec)
\* ------------------------------------------------------------------------

TransferSent == \E j \in 1..Len(sent) : sent[j].kind = "transfer"

\* value + gasEstimate * gasPrice, from the quote and the two RPC reads
TotalNeeded == NumeralValue(quote.txData[1].value) + gas.estimate * gas.price

NativePcs ==
  {"executeNativeTokenSwap", "estimateGas", "getGasPrice", "getBalance",
   "sendTransaction", "waitForTransactionReceipt"}

Permit2Pcs ==
  {"executePermit2Swap", "readAllowance", "simulateApprove", "writeApprove",
   "waitApprovalReceipt", "getBalancePermit2", "checkSignData", "signTypedData",
   "submitPermit2"}

\* C27: gas is estimated at most once in a run; when the estimation fails
\* the run has failed with the transaction-would-fail error quoting the
\* reason the estimation gave, nothing was sent and no status was queried.
C27_GasEstimationFailureFatal ==
  /\ ops.estimateGas <= 1
  /\ err = "Transaction would fail" =>
       /\ pc = "failed"
       /\ NativeDispatched
       /\ ops.estimateGas = 1
       /\ IsSome(errReason) /\ errReason[1] \in RpcReasons
       /\ ops.getGasPrice = 0 /\ ops.getBalance = 0
       /\ sent = << >>
       /\ ops.statusQuery = 0 /\ ops.sleep = 0
  /\ (NativeDispatched /\ pc \in {"getGasPrice", "getBalance", "sendTransaction"}) =>
       err = ""

\* C27 witness: the estimation of a validated quote's transaction reverted
C27_Witness ==
  /\ err = "Transaction would fail"
  /\ errReason = Some("execution reverted")
  /\ validated
  /\ pc = "failed"

\* C28: the quote's transaction is sent only when the balance read is at
\* least value + gasEstimate * gasPrice (equality included); with a lower
\* balance the run fails with the insufficient-balance error and sends
\* nothing.
C28_SendOnlyWithSufficientBalance ==
  /\ (NativeDispatched /\ pc \in {"sendTransaction", "waitForTransactionReceipt"}) =>
       (IsSome(balance) /\ balance[1] >= TotalNeeded)
  /\ (NativeDispatched /\ IsSome(balance) /\ balance[1] >= TotalNeeded) =>
       (pc \in {"sendTransaction", "waitForTransactionReceipt"} \/ err = "rpc error")
  /\ (NativeDispatched /\ IsSome(balance) /\ balance[1] < TotalNeeded) =>
       (pc = "failed" /\ err = "Insufficient balance" /\ sent = << >>)
  /\ err = "Insufficient balance" =>
       (IsSome(balance) /\ balance[1] < TotalNeeded /\ sent = << >> /\ ops.statusQuery = 0)
  /\ TransferSent => (NativeDispatched /\ ops.getBalance = 1 /\ pc \notin NativePcs \ {"waitForTransactionReceipt"})

\* C28 witness: the balance equals the total exactly and the transaction
\* was sent
C28_Witness ==
  /\ NativeDispatched
  /\ IsSome(balance) /\ balance[1] = TotalNeeded
  /\ TransferSent
  /\ pc = "waitForTransactionReceipt"

\* C29: in the signed flow a balance of zero fails the run with nothing
\* signed and nothing posted; the run gets to the signing data only with a
\* balance above zero.
C29_ZeroBalanceNoSignature ==
  /\ (~NativeDispatched /\ balance = Some(0)) =>
       (pc = "failed" /\ err = "Wallet has no ETH for gas fees")
  /\ err = "Wallet has no ETH for gas fees" =>
       /\ pc = "failed" /\ balance = Some(0)
       /\ signed = << >> /\ posted = << >>
       /\ ops.statusQuery = 0
  /\ pc \in {"checkSignData", "signTypedData"} => (IsSome(balance) /\ balance[1] > 0)
  /\ (signed # << >> \/ posted # << >>) => ops.getBalance = 1

\* C29 witness: the balance was zero after an approval had been confirmed
C29_Witness ==
  /\ err = "Wallet has no ETH for gas fees"
  /\ ApprovalSent
  /\ ops.receipt = 1
  /\ signed = << >>

\* C30: the flow is fixed by the dispatch.  A run dispatched to the native
\* flow never reads an allowance, simulates or sends an approval, signs or
\* posts; any other run never estimates gas or sends the quote's
\* transaction.
C30_OneFlowPerRun ==
  /\ NativeDispatched =>
       /\ pc \notin Permit2Pcs
       /\ ops.readAllowance = 0 /\ ops.simulate = 0
       /\ ~ApprovalSent
       /\ signed = << >> /\ posted = << >>
  /\ ~NativeDispatched =>
       /\ pc \notin NativePcs
       /\ ops.estimateGas = 0 /\ ops.getGasPrice = 0
       /\ ~TransferSent
  /\ TransferSent => (signed = << >> /\ posted = << >> /\ ~ApprovalSent)
  /\ (signed # << >> \/ posted # << >>) => ~TransferSent

\* C30 witness: a native run completed having sent its one transaction
C30_Witness ==
  /\ NativeDispatched
  /\ pc = "done"
  /\ Len(sent) = 1 /\ TransferSent
  /\ signed = << >> /\ posted = << >>

\* ------------------------------------------------------------------------
\* Properties of searchTokens and resolveToken (SpecResolve)
\* ------------------------------------------------------------------------

\* the search threw, and resolveToken with it
SearchThrew ==
  IsSome(resolved) /\ ~resolved[1].ok /\ resolved[1].value = "Failed to search tokens"

\* resolveToken has returned or thrown on the results of a search
ResolveSettled == IsSome(resolved) /\ ~SearchThrew

\* the search returned a list (it did not throw)
SearchReturned == resolvePc = "resolveToken" \/ ResolveSettled

\* a 42-character input that begins with 0x
AddressShaped(input) == Len(input) = AddrLen /\ SubSeq(input, 1, 2) = << "0", "x" >>

TokenFields(t) == [address |-> t.address, symbol |-> t.symbol, decimals |-> t.decimals]

Lowest(S) == CHOOSE i \in S : \A j \in S : i <= j

\* the results on the target chain, and those among them with the input's symbol
OnTargetChain == {i \in 1..Len(tokenList) : tokenList[i].chainId = resolveArgs.chainId}

SymbolOnTargetChain ==
  {i \in OnTargetChain : SameIgnoringCase(tokenList[i].symbol, resolveArgs.input)}

\* the results with the input's address, and those among them on the target chain
AddressAnywhere ==
  {i \in 1..Len(tokenList) : SameIgnoringCase(tokenList[i].address, resolveArgs.input)}

AddressOnTargetChain == AddressAnywhere \cap OnTargetChain

\* the tokens of the response in the order the response lists them
ResponseTokens ==
  IF response.shape = "flat" THEN response.tokens
  ELSE response.tokens[1] \o response.tokens[8453]

\* C22: for an input that is not address-shaped, resolveToken returns the
\* first result with the input's symbol (case ignored) on the target chain;
\* without one, the first result on the target chain; without one, it fails
\* with the not-found error.  What it returns is always a result on the
\* target chain.
C22_SymbolResolution ==
  (ResolveSettled /\ ~AddressShaped(resolveArgs.input)) =>
    /\ IF SymbolOnTargetChain # {}
         THEN /\ resolvePc = "returned"
              /\ resolved[1].value = TokenFields(tokenList[Lowest(SymbolOnTargetChain)])
       ELSE IF OnTargetChain # {}
         THEN /\ resolvePc = "returned"
              /\ resolved[1].value = TokenFields(tokenList[Lowest(OnTargetChain)])
       ELSE resolvePc = "thrown" /\ resolved[1].value = "not found"
    /\ resolvePc = "returned" =>
         \E i \in OnTargetChain : resolved[1].value = TokenFields(tokenList[i])

\* C22 witness: the exact symbol, spelled in lower case, was found behind
\* another token of the target chain
C22_Witness ==
  /\ resolvePc = "returned"
  /\ resolveArgs.input = << "f", "x", "d" >>
  /\ Len(tokenList) = 2
  /\ tokenList[1].chainId = resolveArgs.chainId
  /\ tokenList[1].symbol = << "D", "E", "X" >>
  /\ tokenList[2].chainId = resolveArgs.chainId
  /\ resolved[1].value = TokenFields(tokenList[2])

\* C23: when the results hold, on the target chain and under the input's
\* symbol, a verified 6-decimal listing and an unverified 18-decimal one,
\* resolveToken returns a verified one, for both response shapes and both
\* orders.
C23_VerifiedListingWins ==
  ( /\ ResolveSettled /\ ~AddressShaped(resolveArgs.input)
    /\ \E i, j \in SymbolOnTargetChain :
         /\ tokenList[i].isVerified /\ tokenList[i].decimals = 6
         /\ ~tokenList[j].isVerified /\ tokenList[j].decimals = 18 ) =>
      /\ resolvePc = "returned"
      /\ resolved[1].value.decimals = 6
      /\ \E i \in SymbolOnTargetChain :
           tokenList[i].isVerified /\ resolved[1].value = TokenFields(tokenList[i])

\* C24: the list searchTokens returns holds the tokens of the response, each
\* once, in descending order of score, tokens of one score in the order of
\* the response - for the flat shape and for the per-chain map.
C24_FlatListRankedByScore ==
  SearchReturned =>
    /\ \A sc \in 0..3 :
         SelectSeq(tokenList, LAMBDA t : score(t) = sc)
           = SelectSeq(ResponseTokens, LAMBDA t : score(t) = sc)
    /\ \A i, j \in 1..Len(tokenList) :
         i < j => score(tokenList[i]) >= score(tokenList[j])

\* C25: for an address-shaped input and a search that returned,
\* resolveToken returns; the address it returns is the input's up to letter
\* case, and when no result has that address it is the input itself, with 18
\* decimals.
C25_AddressNeverFails ==
  (ResolveSettled /\ AddressShaped(resolveArgs.input)) =>
    /\ resolvePc = "returned" /\ resolved[1].ok
    /\ SameIgnoringCase(resolved[1].value.address, resolveArgs.input)
    /\ AddressAnywhere = {} =>
         /\ resolved[1].value.address = resolveArgs.input
         /\ resolved[1].value.decimals = 18

\* C25 witness: an address no listed token has, resolved against two results
C25_Witness ==
  /\ resolvePc = "returned"
  /\ resolveArgs.input = ZERO_ADDRESS
  /\ Len(tokenList) = 2
  /\ resolved[1].value.address = ZERO_ADDRESS
  /\ resolved[1].value.decimals = 18

\* C26: for an address-shaped input the first result with that address on
\* the target chain gives the symbol and decimals; without one, the first
\* result with that address on any chain gives them, the address returned is
\* the input as given, and a warning is emitted.
C26_AddressPrecedenceAndWarning ==
  (ResolveSettled /\ AddressShaped(resolveArgs.input)) =>
    IF AddressOnTargetChain # {}
      THEN /\ resolved[1].value.symbol = tokenList[Lowest(AddressOnTargetChain)].symbol
           /\ resolved[1].value.decimals = tokenList[Lowest(AddressOnTargetChain)].decimals
    ELSE AddressAnywhere # {} =>
           /\ resolved[1].value.address = resolveArgs.input
           /\ resolved[1].value.symbol = tokenList[Lowest(AddressAnywhere)].symbol
           /\ resolved[1].value.decimals = tokenList[Lowest(AddressAnywhere)].decimals
           /\ warned

\* ------------------------------------------------------------------------
\* Properties of the signed flow, the poller and the dispatch (Spec)
\* ------------------------------------------------------------------------

\* C31: in the signed flow the domain, types and message handed to the
\* signer are those of the quote, which has passed validation, and every
\* submit request carries the quote's witness, the signature the signer
\* returned, the quote's requestType and the quote's quoteId.
C31_SignedAndSubmittedUnaltered ==
  /\ Len(signed) <= 1
  /\ \A j \in 1..Len(signed) :
       /\ validated
       /\ IsSome(quote.signTypedData)
       /\ validatePermit2SignData(quote.signTypedData[1], quote.inputToken,
                                  quote.inputAmount) = "ok"
       /\ signed[j].request.domain = quote.signTypedData[1].domain
       /\ signed[j].request.types = quote.signTypedData[1].types
       /\ signed[j].request.message = quote.signTypedData[1].values
       /\ signed[j].signature = Signature(signed[j].request)
  /\ \A j \in 1..Len(posted) :
       /\ Len(signed) = 1
       /\ IsSome(quote.witness)
       /\ posted[j].request = quote.witness[1]
       /\ posted[j].userSignature = signed[1].signature
       /\ posted[j].requestType = quote.requestType
       /\ posted[j].quoteId = quote.quoteId

\* C31 witness: a quote whose verifying contract is spelled in lower case and
\* whose message names the token was signed and submitted, and is polled
C31_Witness ==
  /\ pc = "pollSleep"
  /\ Len(signed) = 1 /\ Len(posted) = 1
  /\ quote.signTypedData[1].domain.verifyingContract = toLowerCase(PERMIT2_ADDRESS)
  /\ IsSome(quote.signTypedData[1].values.permitted)

\* the body of the latest response to POST /submit reports failure or has no
\* request hash
SubmitRejected ==
  /\ IsSome(submitData)
  /\ (~submitData[1].success \/ ~IsSome(submitData[1].requestHash))

\* the remote error message of the latest response, or the body when there
\* is none
RemoteMessage ==
  IF IsSome(submitData[1].errorMessage) THEN submitData[1].errorMessage[1]
  ELSE stringify(submitData[1])

\* C32: an id comes out of submitPermit2 only with a response that reports
\* success and has a request hash, and it is that hash; a response that
\* reports failure or has no hash ends the call in the submission failure
\* with the remote message, and no status query or poll sleep follows.
C32_SubmitFailureEndsRun ==
  /\ (posted # << >> /\ IsSome(requestHash)) =>
       /\ IsSome(submitData) /\ submitData[1].success
       /\ requestHash = submitData[1].requestHash
  /\ SubmitRejected =>
       /\ pc = "failed" /\ err = "Submit error"
       /\ errReason = Some(RemoteMessage)
       /\ requestHash = None
       /\ ops.statusQuery = 0 /\ ops.sleep = 0

\* C34: no poll sleep comes before the first status query, and there are
\* never more sleeps than non-terminal responses.
C34_FirstQueryBeforeAnySleep ==
  /\ ops.statusQuery = 0 => ops.sleep = 0
  /\ ops.sleep <= pollI

\* the time between status query k and the one before it (the start of the
\* poll for the first)
QueryGap(k) == queryTimes[k] - (IF k = 1 THEN 0 ELSE queryTimes[k - 1])

\* the status queries issued in the 60 seconds that start with query k
QueriesInWindow(k) ==
  {j \in 1..Len(queryTimes) :
     queryTimes[k] <= queryTimes[j] /\ queryTimes[j] <= queryTimes[k] + 60000}

\* C35: 15 s pass before each of the first 4 status queries and 30 s before
\* every later one, so the interval never decreases, and no 60-second window
\* holds more than 5 status queries.
C35_PollRateBounded ==
  /\ \A k \in 1..Len(queryTimes) :
       QueryGap(k) = IF k <= 4 THEN 15000 ELSE 30000
  /\ \A k \in 1..(Len(queryTimes) - 1) : QueryGap(k) <= QueryGap(k + 1)
  /\ \A k \in 1..Len(queryTimes) : Cardinality(QueriesInWindow(k)) <= 5

\* C35 witness: a poll that used all its attempts, with the four queries of
\* the first minute in one window
C35_Witness ==
  /\ Len(queryTimes) = MaxPollAttempts
  /\ Cardinality(QueriesInWindow(1)) = 4
  /\ QueryGap(4) = 15000 /\ QueryGap(5) = 30000

\* C36: the quote's transaction is sent only for a quote whose input token is
\* the native-token sentinel.
C36_NativeFlowOnlyForNativeToken ==
  TransferSent => isNativeToken(quote.inputToken)

\* C37: a quote dispatched to the native flow without a requestHash fails
\* with nothing validated, estimated, read or sent; a native-token quote that
\* is not dispatched to the native flow fails at the dispatch with nothing
\* read, approved, signed or posted; a sent transfer has a settlement id.
C37_NoSettlementIdNothingSent ==
  /\ (NativeDispatched /\ ~IsSome(quote.requestHash)) =>
       /\ pc \in {"executeSwap", "executeNativeTokenSwap", "failed"}
       /\ pc = "failed" => err = "Missing requestHash for native token swap"
       /\ ~validated /\ ops = NoOps /\ sent = << >>
  /\ (pc # "idle" /\ isNativeToken(quote.inputToken) /\ ~NativeDispatched) =>
       /\ pc \in {"executeSwap", "failed"}
       /\ pc = "failed" =>
            err = "Native token swap expected txData but none provided in quote"
       /\ ops = NoOps
       /\ sent = << >> /\ signed = << >> /\ posted = << >>
  /\ TransferSent => IsSome(quote.requestHash)

\* C37 witness: a native quote whose txData passes validation but that has
\* no requestHash has failed
C37_Witness ==
  /\ pc = "failed"
  /\ NativeDispatched /\ ~IsSome(quote.requestHash)
  /\ isNativeToken(quote.inputToken)
  /\ validateNativeTxData(quote.txData[1], quote.inputAmount, quote.originChain) = "ok"

\* C40: after a status response with no status object, no code, or a code
\* outside 3..7 the poll has neither returned nor failed with a terminal
\* status error: it goes on to the next sleep, or it has used maxAttempts
\* and failed with the timeout.
C40_NonTerminalKeepsPolling ==
  (IsSome(requestHash) /\ ops.statusQuery > 0 /\ pc # "pollQuery"
     /\ StatusCode(lastStatus) \notin {Some(c) : c \in 3..7}) =>
    /\ result = None /\ returned = None
    /\ \/ pc = "pollSleep" /\ pollI < MaxPollAttempts
       \/ /\ pc = "failed"
          /\ \/ err = "Polling timed out" /\ pollI = MaxPollAttempts
             \/ lastStatus = None /\ err \in FailureKinds

\* C40 witness: the poll goes on after a response with a code that is not in
\* the table
C40_Witness ==
  /\ pc = "pollSleep"
  /\ StatusCode(lastStatus) = Some(8)
  /\ pollI = 2

\* ------------------------------------------------------------------------
\* Failure of the search behind the cache (SpecSearch)
\* ------------------------------------------------------------------------

\* lookup i called searchTokens, which threw
FetchFailed(i) == ~lookups[i].hit /\ ~lookups[i].ok

\* the first lookup after i for the key of i, or 0
NextLookupOfKey(i) ==
  LET later == {j \in (i + 1)..Len(lookups) : lookups[j].key = lookups[i].key}
  IN IF later = {} THEN 0 ELSE CHOOSE j \in later : \A k \in later : j <= k

\* C39: a lookup whose search throws ends in that throw and returns no
\* results, not those of the expired entry it found either; the cache holds
\* for its key what it held before (nothing, or the expired entry with its
\* old time); and the next lookup of the key reads that same entry and calls
\* the network again.
C39_FailedSearchLeavesCache ==
  /\ \A i \in 1..Len(lookups) :
       FetchFailed(i) =>
         /\ lookups[i].results \in SearchFailures
         /\ IsSome(lookups[i].cached) =>
              lookups[i].at - lookups[i].cached[1].ts >= CACHE_TTL
         /\ i = Len(lookups) => searchCache[lookups[i].key] = lookups[i].cached
         /\ NextLookupOfKey(i) # 0 =>
              /\ lookups[NextLookupOfKey(i)].cached = lookups[i].cached
              /\ ~lookups[NextLookupOfKey(i)].hit
  /\ fetches = Cardinality({i \in 1..Len(lookups) : ~lookups[i].hit})
                 + (IF lookup.pc = "fetching" THEN 1 ELSE 0)

\* C39 witness: the search for an expired entry threw, the entry stayed, and
\* the next lookup of the key (in its other spelling) called the network and
\* got results
C39_Witness ==
  /\ Len(lookups) = 3
  /\ Fetched(1)
  /\ lookups[2].key = lookups[1].key /\ ReadExpired(2) /\ FetchFailed(2)
  /\ lookups[2].results = "Failed to search tokens"
  /\ lookups[3].key = lookups[2].key /\ lookups[3].query # lookups[2].query
  /\ lookups[3].cached = StoredBy(1)
  /\ Fetched(3)
  /\ fetches = 3

\* ------------------------------------------------------------------------
\* Properties of the quote request and of the quote returned (SpecQuote)
\* ------------------------------------------------------------------------

DecimalDigits == << "0", "1", "2", "3", "4", "5", "6", "7", "8", "9" >>

\* s is the decimal numeral of n: digits only, no leading zero, value n
RECURSIVE DecimalValue(_)
DecimalValue(s) ==
  IF s = << >> THEN 0
  ELSE 10 * DecimalValue(SubSeq(s, 1, Len(s) - 1))
         + (CHOOSE d \in 0..9 : DecimalDigits[d + 1] = s[Len(s)])

IsDecimalOf(s, n) ==
  /\ Len(s) >= 1
  /\ \A i \in 1..Len(s) : \E d \in 1..10 : DecimalDigits[d] = s[i]
  /\ (Len(s) > 1 => s[1] # "0")
  /\ DecimalValue(s) = n

\* a receiver was passed: the field is there and is not the empty string
ReceiverProvided == IsSome(vargs.receiverAddress) /\ vargs.receiverAddress[1] # << >>

\* C33: the query of every GET /quote has the nine parameters; the five
\* text fields of the request are passed on as they are, the two chain ids
\* as their decimal numerals, receiverAddress is the receiver when one was
\* passed and userAddress otherwise, and the fee taker and fee rate are the
\* fixed constants.
C33_QuoteParamsMapping ==
  vfn = "getQuote" =>
    \A j \in 1..Len(fnlog) :
      /\ DOMAIN fnlog[j] =
           {"userAddress", "receiverAddress", "originChainId", "destinationChainId",
            "inputToken", "outputToken", "inputAmount", "feeTakerAddress", "feeBps"}
      /\ fnlog[j].userAddress = vargs.userAddress
      /\ fnlog[j].inputToken = vargs.inputToken
      /\ fnlog[j].outputToken = vargs.outputToken
      /\ fnlog[j].inputAmount = vargs.inputAmount
      /\ IsDecimalOf(fnlog[j].originChainId, vargs.originChainId)
      /\ IsDecimalOf(fnlog[j].destinationChainId, vargs.destinationChainId)
      /\ fnlog[j].receiverAddress =
           (IF ReceiverProvided THEN vargs.receiverAddress[1] ELSE vargs.userAddress)
      /\ fnlog[j].feeTakerAddress = FEE_TAKER_ADDRESS
      /\ fnlog[j].feeBps = << "2", "0" >>

\* C33 witness: a request from chain 8453 to chain 1 with a receiver of its
\* own was sent
C33_Witness ==
  /\ vfn = "getQuote"
  /\ Len(fnlog) = 1
  /\ ReceiverProvided
  /\ fnlog[1].receiverAddress # fnlog[1].userAddress
  /\ fnlog[1].originChainId = << "8", "4", "5", "3" >>
  /\ fnlog[1].destinationChainId = << "1" >>

\* getQuote has returned a quote
QuoteReturned == vfn = "getQuote" /\ IsSome(vres) /\ vres[1].ok

\* C38: the inputAmount, inputToken, outputToken, originChain and destChain
\* of a returned quote are the caller's request parameters, whatever the
\* response says.
C38_QuoteCarriesCallersRequest ==
  QuoteReturned =>
    /\ vres[1].value.inputAmount = vargs.inputAmount
    /\ vres[1].value.inputToken = vargs.inputToken
    /\ vres[1].value.outputToken = vargs.outputToken
    /\ vres[1].value.originChain = vargs.originChainId
    /\ vres[1].value.destChain = vargs.destinationChainId

\* C38 witness: a quote was returned, on the second attempt, from a response
\* that names another amount, other tokens and other chains than the request
C38_Witness ==
  /\ QuoteReturned
  /\ retry.calls = 2
  /\ LET echo == vres[1].data[1].result[1].autoRoute[1].echo
     IN /\ IsSome(echo.inputAmount) /\ echo.inputAmount[1] # vargs.inputAmount
        /\ IsSome(echo.inputToken) /\ echo.inputToken[1] # vargs.inputToken
        /\ IsSome(echo.outputToken) /\ echo.outputToken[1] # vargs.outputToken
        /\ IsSome(echo.originChainId) /\ echo.originChainId[1] # vargs.originChainId
  /\ IsSome(vres[1].value.txData)

====
